---------------------------- MODULE Spec2Model ----------------------------
(***************************************************************************)
(* Multi-camera acquisition runners of FlyCaptureTools.                    *)
(*                                                                         *)
(* Three runners share one pattern (a Supervisor, N capture Workers, one   *)
(* frame queue of size 1 per Worker, a Start and a Stop event):            *)
(*   "multi_main"    run_camera.multi_main + ParallelCamera.run            *)
(*                   (processes, per-camera ready events, error queues)    *)
(*   "threading"     run_multi_camera_threading.main + run_func            *)
(*                   (threads, a Barrier of nCams+1 parties)               *)
(*   "multi_cameras" run_multi_cameras.main + capture_func                 *)
(*                   (threads, cameras opened by the main thread)          *)
(* The variable runner says which of them a behaviour is a run of.         *)
(* Definitions are prefixed by the function they model:                    *)
(*   MM_ multi_main, PC_ ParallelCamera.run, TM_ threading main,           *)
(*   RF_ run_func, CM_ run_multi_cameras.main, CF_ capture_func.           *)
(***************************************************************************)
EXTENDS Integers, Sequences, FiniteSets, TLC

\* Largest number of cameras in cam_nums.
MaxCams == 2

\* Images the cameras deliver in one session, all cameras together (afterwards
\* getImage only fails).
MaxFrames == 2

\* Queue(maxsize=1)
QueueMaxsize == 1

\* Largest number of video writers one Camera object creates.
MaxWriters == 2

\* Largest number of cameras the viewport grid is laid out for.
MaxGridCams == 16

Runners == {"multi_main", "threading", "multi_cameras"}

VARIABLES
    runner,         \* which runner this behaviour is a run of
    nCams,          \* len(cam_nums)
    spc,            \* Supervisor (main process / main thread) position
    si,             \* Supervisor's loop index (i / cam_num / position in a for loop)
    KEEPGOING,      \* the main loops' flag
    wpc,            \* Worker positions, by position in cam_nums
    cam,            \* each Worker's Camera: "none", "open", "capturing", "closed"
    start_event,
    stop_event,
    ready,          \* multi_main: ready_event.is_set(); threading: has called barrier.wait()
    barrier_broken, \* threading: the Barrier is in its broken state
    all_ready,      \* multi_main's list all_ready
    error_queue,    \* multi_main: each ParallelCamera's error_queue
    frame_queue,    \* each Worker's frame queue (a sequence of at most QueueMaxsize items)
    acq,            \* number of images each Worker's camera has delivered
    viewport,       \* the tiled display buffer, by tile (row, column)
    failed_cams,    \* multi_main: the cameras printed as failed to initialise
    errored,        \* cameras named in an 'errored' / 'died' message
    outcome,        \* what the Supervisor printed or raised as the session's outcome
    startSnap,      \* history: the Workers ready, and Stop, at the moment Start was set
    deadAtTick,     \* history: the Workers not alive when the current tick began
    camera,         \* a FlyCaptureUtils.Camera object used on its own, with its SDK objects
    cam_nums,       \* the list of camera indices the session was started with
    gui             \* the attributes and widgets of gui.MainWindow

vars == <<runner, nCams, spc, si, KEEPGOING, wpc, cam, start_event, stop_event,
          ready, barrier_broken, all_ready, error_queue, frame_queue, acq,
          viewport, failed_cams, errored, outcome, startSnap, deadAtTick, camera,
          cam_nums, gui>>

Cams == 0 .. (nCams - 1)

\* The camera index at position i of cam_nums
CamNum(i) == cam_nums[i + 1]

-----------------------------------------------------------------------------
(* Pure helpers *)

\* np.floor(np.sqrt(n)).astype(int)
FloorSqrt(n) == CHOOSE r \in 0 .. n : r * r <= n /\ (r + 1) * (r + 1) > n

\* nRows = floor(sqrt(nCams))
NRows(n) == FloorSqrt(n)

\* Faulty variant of NCols: the quotient is rounded down.
NCols_Floor(n) == n \div NRows(n)

\* nCols = ceil(nCams / nRows)
NCols(n) == (n + NRows(n) - 1) \div NRows(n)

\* np.unravel_index(i, (nRows, nCols)): row-major (y, x)
UnravelIndex(i, n) == <<i \div NCols(n), i % NCols(n)>>

Tiles(n) == (0 .. (NRows(n) - 1)) \X (0 .. (NCols(n) - 1))

\* An image array: frame number k of the camera with index i.
Image(i, k) == <<"img", i, k>>

\* capture_func puts ret (True), not the image, on its queue.
RetTrue == <<"bool", 0, 1>>

\* np.zeros / np.empty tile that no frame was written to.
Blank == <<"zeros", 0, 0>>

IsImage(item) == item[1] = "img"

\* Faulty variant of PutNowait: a full slot is overwritten by the new item.
PutNowait_Overwrite(q, item) == <<item>>

\* Queue.put_nowait inside try / except QueueFull: pass
PutNowait(q, item) == IF Len(q) >= QueueMaxsize THEN q ELSE Append(q, item)

\* Faulty variant of WriteTile: the frame lands in the next camera's tile.
WriteTile_Shifted(vp, i, n, frame) ==
    [vp EXCEPT ![UnravelIndex((i + 1) % n, n)] = frame]

\* Faulty variant of WriteTile: the tile is chosen by the index of the camera
\* the frame comes from, not by the position i.
WriteTile_ByCamIndex(vp, i, n, frame) ==
    [vp EXCEPT ![UnravelIndex(frame[2] % n, n)] = frame]

\* viewport[y*imgH:(y+1)*imgH, x*imgW:(x+1)*imgW, ...] = frame, (y, x) = unravel_index(i)
WriteTile(vp, i, n, frame) == [vp EXCEPT ![UnravelIndex(i, n)] = frame]

\* Faulty variant of AllOf: any(all_ready).
AllOf_Any(flags) == \E i \in DOMAIN flags : flags[i]

\* all(all_ready)
AllOf(flags) == \A i \in DOMAIN flags : flags[i]

\* Faulty variant of FailedCams: the test on success is inverted.
FailedCams_Inverted(flags) == {i \in DOMAIN flags : flags[i]}

\* [parCam.name for success, parCam in zip(all_ready, parCams) if not success]
FailedCams(flags) == {i \in DOMAIN flags : ~flags[i]}

RECURSIVE SumOver(_, _)
SumOver(f, S) == IF S = {} THEN 0
                 ELSE LET x == CHOOSE y \in S : TRUE IN f[x] + SumOver(f, S \ {x})

\* The cameras can still deliver an image.
MoreFrames == SumOver(acq, DOMAIN acq) < MaxFrames

\* Faulty variant of IsAlive: the liveness check never reports a dead Worker.
IsAlive_Always(i) == TRUE

\* Process.is_alive() / Thread.is_alive()
IsAlive(i) == wpc[i] \notin {"unborn", "exited", "terminated"}

\* The Workers whose process / thread has ended.
DeadNow == {i \in Cams : wpc[i] \in {"exited", "terminated"}}

\* The Worker's process / thread is still running.
Running(i) == wpc[i] \notin {"unborn", "exited", "terminated"}

\* parCam.join(timeout=5); if exitcode is None or exitcode < 0: parCam.terminate()
JoinOrTerminate(w, i) == IF w[i] = "exited" THEN w ELSE [w EXCEPT ![i] = "terminated"]

\* cam_thread.join(timeout=3) / t.join(timeout=3): returns, thread running or not
JoinThread(w, i) == w

\* Camera.close() inside try / except: pass (cam is unbound when Camera() raised)
CloseCam(c) == IF c = "none" THEN "none" ELSE "closed"

\* No error dialogue was shown; failed: the camera numbers an error message names
NoDlg == [shown |-> FALSE, failed |-> {}]

\* No slot of the MainWindow has run; raised: the slot raised an exception
NoSlot == [slot |-> "none", raised |-> FALSE]

\* MainWindow.__init__ / initUI: the Connect button enabled, Start and Stop
\* disabled, status 'Disconnected'. loc: "idle" in Qt's event loop, "loop" in
\* run_capture's while loop; window: the main window is open; cams: every
\* Camera object created, as [cam_num, st, attempted] (attempted: close() was
\* called on it); CAM_HANDLES: indices into cams; run: the handles run_capture
\* started; stack: the run of every run_capture call that waits inside
\* processEvents for an on_start it called; dlg: the last error dialogue;
\* last: the slot that ran last.
NewGui ==
    [loc |-> "idle", window |-> TRUE, KEEPGOING |-> FALSE,
     status |-> "Disconnected", connectBtn |-> TRUE, startBtn |-> FALSE,
     stopBtn |-> FALSE, preview_window |-> FALSE, CAM_HANDLES |-> <<>>,
     cams |-> <<>>, run |-> <<>>, stack |-> <<>>, dlg |-> NoDlg, last |-> NoSlot]

\* file_format = None
NoFormat == "<None>"

\* The file_format arguments and the filename extensions (os.path.splitext(filename)[1])
\* that openVideoWriter is called with; "" is a filename without extension.
Formats == {NoFormat, "AVI", "avi", "MJPG", "H264", "h264", "XVID"}
Exts == {"", ".avi", ".AVI", ".mp4", ".Mp4", ".mkv"}

\* The onError arguments that getImage is called with
OnErrors == {"ignore", "warn", "error", "raise"}

\* str.lower() on the extensions of Exts
Lower(ext) ==
    CASE ext = ".AVI" -> ".avi"
      [] ext = ".Mp4" -> ".mp4"
      [] OTHER -> ext

\* str.upper() on the formats of Formats
Upper(file_format) ==
    CASE file_format = "avi" -> "AVI"
      [] file_format = "h264" -> "H264"
      [] OTHER -> file_format

\* Faulty variant of FormatFromExt: the extension is compared without lower().
FormatFromExt_CaseSensitive(ext) ==
    CASE ext = ".avi" -> "AVI"
      [] ext = ".mp4" -> "H264"
      [] OTHER -> "ValueError"

\* openVideoWriter with file_format None: the format from the extension, or
\* "ValueError" where the code raises it.
FormatFromExt(ext) ==
    CASE Lower(ext) = ".avi" -> "AVI"
      [] Lower(ext) = ".mp4" -> "H264"
      [] OTHER -> "ValueError"

\* openVideoWriter's resolution of file_format and of the filename's extension.
\* raised: "ValueError" or ""; format: the upper-cased format; ext: the extension
\* of the filename that is written.
ResolveFormat(file_format, ext) ==
    LET f1 == IF file_format = NoFormat THEN FormatFromExt(ext) ELSE file_format
        f2 == Upper(f1)
    IN  IF f1 = "ValueError" /\ file_format = NoFormat
           THEN [raised |-> "ValueError", format |-> "", ext |-> ext]
        ELSE IF f2 \notin {"AVI", "MJPG", "H264"}
           THEN [raised |-> "ValueError", format |-> f2, ext |-> ext]
        ELSE [raised |-> "", format |-> f2,
              ext |-> IF ext = ""
                         THEN (IF f2 \in {"AVI", "MJPG"} THEN ".avi" ELSE ".mp4")
                         ELSE ext]

\* What the last call of a Camera method was given and what it gave back.
\* getImage: onError, raised, success, img (0 is None, k the k-th image);
\* openVideoWriter: file_format, ext, overwrite, file_exists (os.path.isfile of
\* the filename), alt_exists (of the '-0000' variant), raised, and the format
\* and extension it resolved.
NoCall ==
    [op |-> "none", raised |-> "", onError |-> "", success |-> FALSE, img |-> 0,
     file_format |-> "", ext |-> "", overwrite |-> FALSE, file_exists |-> FALSE,
     alt_exists |-> FALSE, format |-> "", filename_ext |-> ""]

\* Camera.__init__: connected, not capturing, place holders for the video writer.
\* cam_connected, cam_capturing and open_writers are the state of the SDK objects
\* (PyCapture2.Camera, FlyCapture2Video); made counts the writers created;
\* closed says that close() has returned.
NewCamera ==
    [cam_connected |-> TRUE, cam_capturing |-> FALSE, _capture_isOn |-> FALSE,
     video_writer |-> 0, _video_writer_isOpen |-> FALSE, open_writers |-> {},
     made |-> 0, csv_writer |-> FALSE, csv_open |-> FALSE, images |-> 0,
     closed |-> FALSE, written |-> 0, last |-> NoCall]

-----------------------------------------------------------------------------
Init ==
    /\ runner \in Runners
    /\ nCams \in 1 .. MaxCams
    /\ spc = "spawn"
    /\ si = 0
    /\ KEEPGOING = TRUE
    /\ wpc = [i \in 0 .. (nCams - 1) |-> "unborn"]
    /\ cam = [i \in 0 .. (nCams - 1) |->
                 IF runner = "multi_cameras" THEN "open" ELSE "none"]
    /\ start_event = FALSE
    /\ stop_event = FALSE
    /\ ready = [i \in 0 .. (nCams - 1) |-> FALSE]
    /\ barrier_broken = FALSE
    /\ all_ready = [i \in 0 .. (nCams - 1) |-> FALSE]
    /\ error_queue = [i \in 0 .. (nCams - 1) |-> "none"]
    /\ frame_queue = [i \in 0 .. (nCams - 1) |-> <<>>]
    /\ acq = [i \in 0 .. (nCams - 1) |-> 0]
    /\ viewport = [t \in Tiles(nCams) |-> Blank]
    /\ failed_cams = {}
    /\ errored = {}
    /\ outcome = "none"
    /\ startSnap = <<>>
    /\ deadAtTick = {}
    /\ camera = NewCamera
    /\ cam_nums = [p \in 1 .. nCams |-> p - 1]
    /\ gui = NewGui

\* Start is set: remember who was ready and whether Stop was set.
SnapAtStart == IF start_event THEN startSnap
               ELSE <<[rdy |-> {i \in Cams : ready[i]}, stop |-> stop_event]>>


-----------------------------------------------------------------------------
(* run_camera.multi_main: the Supervisor of the process-based runner *)

\* for cam_num in cam_nums: parCam = ParallelCamera(...); parCam.start()
MM_Spawn ==
    /\ runner = "multi_main" /\ spc = "spawn"
    /\ wpc' = [wpc EXCEPT ![si] = "init"]
    /\ IF si + 1 < nCams
          THEN si' = si + 1 /\ spc' = spc
          ELSE si' = 0 /\ spc' = "poll"
    /\ UNCHANGED <<gui, cam_nums, camera, runner, nCams, KEEPGOING, cam, start_event, stop_event, ready,
                   barrier_broken, all_ready, error_queue, frame_queue, acq,
                   viewport, failed_cams, errored, outcome, startSnap, deadAtTick>>

\* One pass of the body of `for i, parCam in enumerate(parCams)` in the readiness
\* poll: read the ready event, then try the error queue (break on an error).
MM_PollCam ==
    /\ runner = "multi_main" /\ spc = "poll"
    /\ all_ready' = [all_ready EXCEPT ![si] = ready[si]]
    /\ IF error_queue[si] = "avail"
          THEN /\ error_queue' = [error_queue EXCEPT ![si] = "got"]
               /\ errored' = errored \cup {si}
               /\ KEEPGOING' = FALSE
               /\ spc' = "poll_exit"
               /\ si' = si
          ELSE /\ UNCHANGED <<error_queue, errored, KEEPGOING>>
               /\ IF si + 1 < nCams
                     THEN si' = si + 1 /\ spc' = spc
                     ELSE si' = 0 /\ spc' = "poll_end"
    /\ UNCHANGED <<gui, cam_nums, camera, runner, nCams, wpc, cam, start_event, stop_event, ready,
                   barrier_broken, frame_queue, acq, viewport, failed_cams,
                   outcome, startSnap, deadAtTick>>

\* if all(all_ready) or time.time() - t0 >= timeout: KEEPGOING = False
MM_PollEnd ==
    /\ runner = "multi_main" /\ spc = "poll_end"
    /\ \E timeout \in BOOLEAN :
          IF AllOf(all_ready) \/ timeout
             THEN KEEPGOING' = FALSE /\ spc' = "poll_exit"
             ELSE KEEPGOING' = KEEPGOING /\ spc' = "poll"
    /\ UNCHANGED <<gui, cam_nums, camera, runner, nCams, si, wpc, cam, start_event, stop_event, ready,
                   barrier_broken, all_ready, error_queue, frame_queue, acq,
                   viewport, failed_cams, errored, outcome, startSnap, deadAtTick>>

\* Faulty variant of MM_InitFailed: stop_event.set() is forgotten.
MM_InitFailed_NoStop ==
    /\ runner = "multi_main" /\ spc = "poll_exit"
    /\ ~AllOf(all_ready)
    /\ failed_cams' = FailedCams(all_ready)
    /\ outcome' = "init_failed"
    /\ spc' = "fail_start"
    /\ UNCHANGED <<gui, cam_nums, camera, runner, nCams, si, KEEPGOING, wpc, cam, start_event, stop_event,
                   ready, barrier_broken, all_ready, error_queue, frame_queue, acq,
                   viewport, errored, startSnap, deadAtTick>>

\* if not all(all_ready): print the failed cameras; stop_event.set()
MM_InitFailed ==
    /\ runner = "multi_main" /\ spc = "poll_exit"
    /\ ~AllOf(all_ready)
    /\ failed_cams' = FailedCams(all_ready)
    /\ outcome' = "init_failed"
    /\ stop_event' = TRUE
    /\ spc' = "fail_start"
    /\ UNCHANGED <<gui, cam_nums, camera, runner, nCams, si, KEEPGOING, wpc, cam, start_event, ready,
                   barrier_broken, all_ready, error_queue, frame_queue, acq,
                   viewport, errored, startSnap, deadAtTick>>

\* start_event.set() of the failure path
MM_FailStart ==
    /\ runner = "multi_main" /\ spc = "fail_start"
    /\ start_event' = TRUE
    /\ startSnap' = SnapAtStart
    /\ spc' = "fail_join"
    /\ si' = 0
    /\ UNCHANGED <<gui, cam_nums, camera, runner, nCams, KEEPGOING, wpc, cam, stop_event, ready,
                   barrier_broken, all_ready, error_queue, frame_queue, acq,
                   viewport, failed_cams, errored, outcome, deadAtTick>>

\* for parCam in parCams: join(timeout=5), terminate if needed; then return
MM_FailJoin ==
    /\ runner = "multi_main" /\ spc = "fail_join"
    /\ wpc' = JoinOrTerminate(wpc, si)
    /\ IF si + 1 < nCams
          THEN si' = si + 1 /\ spc' = spc
          ELSE si' = 0 /\ spc' = "done"
    /\ UNCHANGED <<gui, cam_nums, camera, runner, nCams, KEEPGOING, cam, start_event, stop_event, ready,
                   barrier_broken, all_ready, error_queue, frame_queue, acq,
                   viewport, failed_cams, errored, outcome, startSnap, deadAtTick>>

\* all(all_ready): go on to 'Ready - Enter to begin'
MM_Ready ==
    /\ runner = "multi_main" /\ spc = "poll_exit"
    /\ AllOf(all_ready)
    /\ spc' = "setup"
    /\ UNCHANGED <<gui, cam_nums, camera, runner, nCams, si, KEEPGOING, wpc, cam, start_event, stop_event,
                   ready, barrier_broken, all_ready, error_queue, frame_queue, acq,
                   viewport, failed_cams, errored, outcome, startSnap, deadAtTick>>

\* keyboard.wait('enter'), the display window is opened, start_event.set()
MM_Setup ==
    /\ runner = "multi_main" /\ spc = "setup"
    /\ start_event' = TRUE
    /\ startSnap' = SnapAtStart
    /\ KEEPGOING' = TRUE
    /\ spc' = "loop"
    /\ si' = 0
    /\ deadAtTick' = DeadNow
    /\ UNCHANGED <<gui, cam_nums, camera, runner, nCams, wpc, cam, stop_event, ready, barrier_broken,
                   all_ready, error_queue, frame_queue, acq, viewport,
                   failed_cams, errored, outcome>>

\* A call between the readiness poll and the try block raises (keyboard.wait,
\* cv2.namedWindow, get_screen_resolution, cv2.resizeWindow, cv2.moveWindow):
\* the exception leaves multi_main.
MM_SetupRaise ==
    /\ runner = "multi_main" /\ spc = "setup"
    /\ spc' = "raised"
    /\ outcome' = "raised"
    /\ UNCHANGED <<gui, cam_nums, camera, runner, nCams, si, KEEPGOING, wpc, cam, start_event, stop_event,
                   ready, barrier_broken, all_ready, error_queue, frame_queue, acq,
                   viewport, failed_cams, errored, startSnap, deadAtTick>>

\* Faulty variant of MM_TickCam: the frame is read but left in the queue.
MM_TickCam_Peek ==
    /\ runner = "multi_main" /\ spc = "loop"
    /\ IF ~IsAlive(si)
          THEN /\ errored' = errored \cup {si}
               /\ spc' = "died"
               /\ UNCHANGED <<si, frame_queue, viewport>>
          ELSE /\ errored' = errored
               /\ IF frame_queue[si] = <<>>
                     THEN UNCHANGED <<frame_queue, viewport>>
                     ELSE /\ frame_queue' = frame_queue
                          /\ viewport' = WriteTile(viewport, si, nCams,
                                                   Head(frame_queue[si]))
               /\ IF si + 1 < nCams
                     THEN si' = si + 1 /\ spc' = spc
                     ELSE si' = 0 /\ spc' = "display"
    /\ UNCHANGED <<gui, cam_nums, camera, runner, nCams, KEEPGOING, wpc, cam, start_event, stop_event,
                   ready, barrier_broken, all_ready, error_queue, acq,
                   failed_cams, outcome, startSnap, deadAtTick>>

\* Faulty variant of MM_TickCam: a dead Worker is skipped and the loop goes on.
MM_TickCam_SkipDead ==
    /\ runner = "multi_main" /\ spc = "loop"
    /\ IF ~IsAlive(si)
          THEN /\ errored' = errored
               /\ UNCHANGED <<frame_queue, viewport>>
               /\ IF si + 1 < nCams
                     THEN si' = si + 1 /\ spc' = spc
                     ELSE si' = 0 /\ spc' = "display"
          ELSE /\ errored' = errored
               /\ IF frame_queue[si] = <<>>
                     THEN UNCHANGED <<frame_queue, viewport>>
                     ELSE /\ frame_queue' = [frame_queue EXCEPT ![si] = Tail(@)]
                          /\ viewport' = WriteTile(viewport, si, nCams,
                                                   Head(frame_queue[si]))
               /\ IF si + 1 < nCams
                     THEN si' = si + 1 /\ spc' = spc
                     ELSE si' = 0 /\ spc' = "display"
    /\ UNCHANGED <<gui, cam_nums, camera, runner, nCams, KEEPGOING, wpc, cam, start_event, stop_event,
                   ready, barrier_broken, all_ready, error_queue, acq,
                   failed_cams, outcome, startSnap, deadAtTick>>

\* Body of `for i, parCam in enumerate(parCams)` in the display loop: the
\* is_alive check, then frame_queue.get_nowait() and the write of the tile.
MM_TickCam ==
    /\ runner = "multi_main" /\ spc = "loop"
    /\ IF ~IsAlive(si)
          THEN /\ errored' = errored \cup {si}
               /\ spc' = "died"
               /\ UNCHANGED <<si, frame_queue, viewport>>
          ELSE /\ errored' = errored
               /\ IF frame_queue[si] = <<>>
                     THEN UNCHANGED <<frame_queue, viewport>>
                     ELSE /\ frame_queue' = [frame_queue EXCEPT ![si] = Tail(@)]
                          /\ viewport' = WriteTile(viewport, si, nCams,
                                                   Head(frame_queue[si]))
               /\ IF si + 1 < nCams
                     THEN si' = si + 1 /\ spc' = spc
                     ELSE si' = 0 /\ spc' = "display"
    /\ UNCHANGED <<gui, cam_nums, camera, runner, nCams, KEEPGOING, wpc, cam, start_event, stop_event,
                   ready, barrier_broken, all_ready, error_queue, acq,
                   failed_cams, outcome, startSnap, deadAtTick>>

\* Faulty variant of MM_Died: the death of a Worker is reported as a quit.
MM_Died_AsQuit ==
    /\ runner = "multi_main" /\ spc = "died"
    /\ error_queue' = [error_queue EXCEPT ![si] = IF @ = "avail" THEN "got" ELSE @]
    /\ outcome' = "quit"
    /\ spc' = "finally"
    /\ UNCHANGED <<gui, cam_nums, camera, runner, nCams, si, KEEPGOING, wpc, cam, start_event, stop_event,
                   ready, barrier_broken, all_ready, frame_queue, acq, viewport,
                   failed_cams, errored, startSnap, deadAtTick>>

\* e = parCam.error_queue.get(timeout=1) (or QueueEmpty); raise RuntimeError(msg);
\* except Exception: traceback.print_exc()
MM_Died ==
    /\ runner = "multi_main" /\ spc = "died"
    /\ error_queue' = [error_queue EXCEPT ![si] = IF @ = "avail" THEN "got" ELSE @]
    /\ outcome' = "died"
    /\ spc' = "finally"
    /\ UNCHANGED <<gui, cam_nums, camera, runner, nCams, si, KEEPGOING, wpc, cam, start_event, stop_event,
                   ready, barrier_broken, all_ready, frame_queue, acq, viewport,
                   failed_cams, errored, startSnap, deadAtTick>>

\* cv2.imshow, cv2.waitKey, then the keyboard check for esc / q
MM_Display ==
    /\ runner = "multi_main" /\ spc = "display"
    /\ \E quit \in BOOLEAN :
          IF quit
             THEN /\ KEEPGOING' = FALSE
                  /\ outcome' = "quit"
                  /\ spc' = "finally"
                  /\ deadAtTick' = deadAtTick
             ELSE /\ KEEPGOING' = KEEPGOING
                  /\ outcome' = outcome
                  /\ spc' = "loop"
                  /\ deadAtTick' = DeadNow
    /\ si' = 0
    /\ UNCHANGED <<gui, cam_nums, camera, runner, nCams, wpc, cam, start_event, stop_event, ready,
                   barrier_broken, all_ready, error_queue, frame_queue, acq,
                   viewport, failed_cams, errored, startSnap>>

\* Faulty variant of MM_DisplayRaise: the exception leaves multi_main at once.
MM_DisplayRaise_Uncaught ==
    /\ runner = "multi_main" /\ spc = "display"
    /\ outcome' = "main_error"
    /\ spc' = "raised"
    /\ UNCHANGED <<gui, cam_nums, camera, runner, nCams, si, KEEPGOING, wpc, cam, start_event, stop_event,
                   ready, barrier_broken, all_ready, error_queue, frame_queue, acq,
                   viewport, failed_cams, errored, startSnap, deadAtTick>>

\* cv2.imshow / cv2.waitKey raises; except Exception: traceback.print_exc()
MM_DisplayRaise ==
    /\ runner = "multi_main" /\ spc = "display"
    /\ outcome' = "main_error"
    /\ spc' = "finally"
    /\ UNCHANGED <<gui, cam_nums, camera, runner, nCams, si, KEEPGOING, wpc, cam, start_event, stop_event,
                   ready, barrier_broken, all_ready, error_queue, frame_queue, acq,
                   viewport, failed_cams, errored, startSnap, deadAtTick>>

\* Faulty variant of MM_Finally: Start is cleared when Stop is set.
MM_Finally_ClearsStart ==
    /\ runner = "multi_main" /\ spc = "finally"
    /\ stop_event' = TRUE
    /\ start_event' = FALSE
    /\ spc' = "join"
    /\ si' = 0
    /\ UNCHANGED <<gui, cam_nums, camera, runner, nCams, KEEPGOING, wpc, cam, ready,
                   barrier_broken, all_ready, error_queue, frame_queue, acq,
                   viewport, failed_cams, errored, outcome, startSnap, deadAtTick>>

\* finally: stop_event.set(); cv2.destroyWindow(winName)
MM_Finally ==
    /\ runner = "multi_main" /\ spc = "finally"
    /\ stop_event' = TRUE
    /\ spc' = "join"
    /\ si' = 0
    /\ UNCHANGED <<gui, cam_nums, camera, runner, nCams, KEEPGOING, wpc, cam, start_event, ready,
                   barrier_broken, all_ready, error_queue, frame_queue, acq,
                   viewport, failed_cams, errored, outcome, startSnap, deadAtTick>>

\* for parCam in parCams: join(timeout=5), terminate if needed; print Done
MM_Join ==
    /\ runner = "multi_main" /\ spc = "join"
    /\ wpc' = JoinOrTerminate(wpc, si)
    /\ IF si + 1 < nCams
          THEN si' = si + 1 /\ spc' = spc
          ELSE si' = 0 /\ spc' = "done"
    /\ UNCHANGED <<gui, cam_nums, camera, runner, nCams, KEEPGOING, cam, start_event, stop_event, ready,
                   barrier_broken, all_ready, error_queue, frame_queue, acq,
                   viewport, failed_cams, errored, outcome, startSnap, deadAtTick>>

-----------------------------------------------------------------------------
(* run_camera.ParallelCamera.run: the Worker process of multi_main *)

\* cam = Camera(...); cam.openVideoWriter(...); self.ready_event.set()
PC_InitOK(i) ==
    /\ runner = "multi_main" /\ wpc[i] = "init"
    /\ cam' = [cam EXCEPT ![i] = "open"]
    /\ ready' = [ready EXCEPT ![i] = TRUE]
    /\ wpc' = [wpc EXCEPT ![i] = "wait_start"]
    /\ UNCHANGED <<gui, cam_nums, camera, runner, nCams, spc, si, KEEPGOING, start_event, stop_event,
                   barrier_broken, all_ready, error_queue, frame_queue, acq,
                   viewport, failed_cams, errored, outcome, startSnap, deadAtTick>>

\* Faulty variant of PC_InitFail: the exception is not put on the error queue.
PC_InitFail_Silent(i) ==
    /\ runner = "multi_main" /\ wpc[i] = "init"
    /\ \E c \in {"none", "open"} : cam' = [cam EXCEPT ![i] = c]
    /\ wpc' = [wpc EXCEPT ![i] = "finally"]
    /\ UNCHANGED <<gui, cam_nums, camera, runner, nCams, spc, si, KEEPGOING, start_event, stop_event,
                   ready, barrier_broken, all_ready, error_queue, frame_queue, acq,
                   viewport, failed_cams, errored, outcome, startSnap, deadAtTick>>

\* Camera(...) raises (no cam), or openVideoWriter raises (cam is open);
\* except Exception as e: self.error_queue.put(e)
PC_InitFail(i) ==
    /\ runner = "multi_main" /\ wpc[i] = "init"
    /\ \E c \in {"none", "open"} : cam' = [cam EXCEPT ![i] = c]
    /\ error_queue' = [error_queue EXCEPT ![i] = "buffered"]
    /\ wpc' = [wpc EXCEPT ![i] = "finally"]
    /\ UNCHANGED <<gui, cam_nums, camera, runner, nCams, spc, si, KEEPGOING, start_event, stop_event,
                   ready, barrier_broken, all_ready, frame_queue, acq, viewport,
                   failed_cams, errored, outcome, startSnap, deadAtTick>>

\* self.start_event.wait() returns; cam.startCapture()
PC_StartCapture(i) ==
    /\ runner = "multi_main" /\ wpc[i] = "wait_start"
    /\ start_event
    /\ cam' = [cam EXCEPT ![i] = "capturing"]
    /\ wpc' = [wpc EXCEPT ![i] = "loop"]
    /\ UNCHANGED <<gui, cam_nums, camera, runner, nCams, spc, si, KEEPGOING, start_event, stop_event,
                   ready, barrier_broken, all_ready, error_queue, frame_queue, acq,
                   viewport, failed_cams, errored, outcome, startSnap, deadAtTick>>

\* self.start_event.wait() returns; cam.startCapture() raises; error_queue.put(e)
PC_StartCaptureRaise(i) ==
    /\ runner = "multi_main" /\ wpc[i] = "wait_start"
    /\ start_event
    /\ error_queue' = [error_queue EXCEPT ![i] = "buffered"]
    /\ wpc' = [wpc EXCEPT ![i] = "finally"]
    /\ UNCHANGED <<gui, cam_nums, camera, runner, nCams, spc, si, KEEPGOING, cam, start_event, stop_event,
                   ready, barrier_broken, all_ready, frame_queue, acq, viewport,
                   failed_cams, errored, outcome, startSnap, deadAtTick>>

\* while not self.stop_event.is_set()
PC_LoopTest(i) == IF stop_event THEN "finally" ELSE "acquire"

PC_LoopCheck(i) ==
    /\ runner = "multi_main" /\ wpc[i] = "loop"
    /\ wpc' = [wpc EXCEPT ![i] = PC_LoopTest(i)]
    /\ UNCHANGED <<gui, cam_nums, camera, runner, nCams, spc, si, KEEPGOING, cam, start_event, stop_event,
                   ready, barrier_broken, all_ready, error_queue, frame_queue, acq,
                   viewport, failed_cams, errored, outcome, startSnap, deadAtTick>>

\* ret, img = cam.getImage(); if ret: frame = img2array(img); put_nowait(frame.copy())
PC_GetImage(i) ==
    /\ runner = "multi_main" /\ wpc[i] = "acquire"
    /\ \E ret \in BOOLEAN :
          IF ret
             THEN /\ MoreFrames
                  /\ acq' = [acq EXCEPT ![i] = @ + 1]
                  /\ frame_queue' = [frame_queue EXCEPT
                                        ![i] = PutNowait(@, Image(CamNum(i), acq[i] + 1))]
             ELSE UNCHANGED <<acq, frame_queue>>
    /\ wpc' = [wpc EXCEPT ![i] = "loop"]
    /\ UNCHANGED <<gui, cam_nums, camera, runner, nCams, spc, si, KEEPGOING, cam, start_event, stop_event,
                   ready, barrier_broken, all_ready, error_queue, viewport,
                   failed_cams, errored, outcome, startSnap, deadAtTick>>

\* cam.getImage() returned an image and img2array raises; error_queue.put(e)
PC_ConvertRaise(i) ==
    /\ runner = "multi_main" /\ wpc[i] = "acquire"
    /\ MoreFrames
    /\ acq' = [acq EXCEPT ![i] = @ + 1]
    /\ error_queue' = [error_queue EXCEPT ![i] = "buffered"]
    /\ wpc' = [wpc EXCEPT ![i] = "finally"]
    /\ UNCHANGED <<gui, cam_nums, camera, runner, nCams, spc, si, KEEPGOING, cam, start_event, stop_event,
                   ready, barrier_broken, all_ready, frame_queue, viewport,
                   failed_cams, errored, outcome, startSnap, deadAtTick>>

\* cam.getImage() does not return (the SDK's retrieveBuffer blocks)
PC_Hang(i) ==
    /\ runner = "multi_main" /\ wpc[i] = "acquire"
    /\ wpc' = [wpc EXCEPT ![i] = "hung"]
    /\ UNCHANGED <<gui, cam_nums, camera, runner, nCams, spc, si, KEEPGOING, cam, start_event, stop_event,
                   ready, barrier_broken, all_ready, error_queue, frame_queue, acq,
                   viewport, failed_cams, errored, outcome, startSnap, deadAtTick>>

\* The error queue's feeder thread writes the buffered error to the pipe.
PC_Feeder(i) ==
    /\ runner = "multi_main" /\ wpc[i] = "finally"
    /\ error_queue[i] = "buffered"
    /\ error_queue' = [error_queue EXCEPT ![i] = "avail"]
    /\ UNCHANGED <<gui, cam_nums, camera, runner, nCams, spc, si, KEEPGOING, wpc, cam, start_event,
                   stop_event, ready, barrier_broken, all_ready, frame_queue, acq,
                   viewport, failed_cams, errored, outcome, startSnap, deadAtTick>>

\* finally: try cam.close() except pass; queues closed with cancel_join_thread();
\* the process exits (an error the feeder has not written yet is lost).
PC_Finally(i) ==
    /\ runner = "multi_main" /\ wpc[i] = "finally"
    /\ cam' = [cam EXCEPT ![i] = CloseCam(@)]
    /\ error_queue' = [error_queue EXCEPT ![i] = IF @ = "buffered" THEN "lost" ELSE @]
    /\ wpc' = [wpc EXCEPT ![i] = "exited"]
    /\ UNCHANGED <<gui, cam_nums, camera, runner, nCams, spc, si, KEEPGOING, start_event, stop_event,
                   ready, barrier_broken, all_ready, frame_queue, acq, viewport,
                   failed_cams, errored, outcome, startSnap, deadAtTick>>

MM_Supervisor ==
    \/ MM_Spawn \/ MM_PollCam \/ MM_PollEnd \/ MM_InitFailed \/ MM_FailStart
    \/ MM_FailJoin \/ MM_Ready \/ MM_Setup \/ MM_SetupRaise \/ MM_TickCam
    \/ MM_Died \/ MM_Display \/ MM_DisplayRaise \/ MM_Finally \/ MM_Join

PC_Returning(i) ==
    \/ PC_InitOK(i) \/ PC_InitFail(i) \/ PC_StartCapture(i)
    \/ PC_StartCaptureRaise(i) \/ PC_LoopCheck(i) \/ PC_GetImage(i)
    \/ PC_ConvertRaise(i) \/ PC_Feeder(i) \/ PC_Finally(i)

-----------------------------------------------------------------------------
(* run_multi_camera_threading.main: the Supervisor of the thread-based runner *)

\* for cam_num in cam_nums: cam_thread = Thread(target=run_func, ...); cam_thread.start()
TM_Spawn ==
    /\ runner = "threading" /\ spc = "spawn"
    /\ wpc' = [wpc EXCEPT ![si] = "init"]
    /\ IF si + 1 < nCams
          THEN si' = si + 1 /\ spc' = spc
          ELSE si' = 0 /\ spc' = "barrier"
    /\ UNCHANGED <<gui, cam_nums, camera, runner, nCams, KEEPGOING, cam, start_event, stop_event, ready,
                   barrier_broken, all_ready, error_queue, frame_queue, acq,
                   viewport, failed_cams, errored, outcome, startSnap, deadAtTick>>

\* barrier.wait(timeout=5) returns: all nCams+1 parties have arrived, and every
\* run_func leaves its barrier.wait() too.
TM_BarrierPass ==
    /\ runner = "threading" /\ spc = "barrier"
    /\ ~barrier_broken
    /\ \A i \in Cams : wpc[i] = "barrier"
    /\ wpc' = [i \in Cams |-> "wait_start"]
    /\ spc' = "setup"
    /\ UNCHANGED <<gui, cam_nums, camera, runner, nCams, si, KEEPGOING, cam, start_event, stop_event,
                   ready, barrier_broken, all_ready, error_queue, frame_queue, acq,
                   viewport, failed_cams, errored, outcome, startSnap, deadAtTick>>

\* barrier.wait(timeout=5) times out: the Barrier breaks and main raises
\* RuntimeError('Child threads failed to initialise').
TM_BarrierTimeout ==
    /\ runner = "threading" /\ spc = "barrier"
    /\ \E i \in Cams : wpc[i] # "barrier"
    /\ barrier_broken' = TRUE
    /\ outcome' = "init_failed"
    /\ spc' = "raised"
    /\ UNCHANGED <<gui, cam_nums, camera, runner, nCams, si, KEEPGOING, wpc, cam, start_event, stop_event,
                   ready, all_ready, error_queue, frame_queue, acq, viewport,
                   failed_cams, errored, startSnap, deadAtTick>>

\* input('Ready - Enter to begin'), cv2.namedWindow, start_event.set()
TM_Setup ==
    /\ runner = "threading" /\ spc = "setup"
    /\ start_event' = TRUE
    /\ startSnap' = SnapAtStart
    /\ KEEPGOING' = TRUE
    /\ spc' = "loop"
    /\ si' = 0
    /\ deadAtTick' = DeadNow
    /\ UNCHANGED <<gui, cam_nums, camera, runner, nCams, wpc, cam, stop_event, ready, barrier_broken,
                   all_ready, error_queue, frame_queue, acq, viewport,
                   failed_cams, errored, outcome>>

\* input(...) or cv2.namedWindow raises: the exception leaves main.
TM_SetupRaise ==
    /\ runner = "threading" /\ spc = "setup"
    /\ spc' = "raised"
    /\ outcome' = "raised"
    /\ UNCHANGED <<gui, cam_nums, camera, runner, nCams, si, KEEPGOING, wpc, cam, start_event, stop_event,
                   ready, barrier_broken, all_ready, error_queue, frame_queue, acq,
                   viewport, failed_cams, errored, startSnap, deadAtTick>>

\* Body of `for cam_num in range(nCams)`: the is_alive check (KEEPGOING = False
\* and break), then frame_queue.get_nowait() and the write of the tile.
TM_TickCam ==
    /\ runner = "threading" /\ spc = "loop"
    /\ IF ~IsAlive(si)
          THEN /\ errored' = errored \cup {si}
               /\ outcome' = "died"
               /\ KEEPGOING' = FALSE
               /\ spc' = "display"
               /\ UNCHANGED <<si, frame_queue, viewport>>
          ELSE /\ UNCHANGED <<errored, outcome, KEEPGOING>>
               /\ IF frame_queue[si] = <<>>
                     THEN UNCHANGED <<frame_queue, viewport>>
                     ELSE /\ frame_queue' = [frame_queue EXCEPT ![si] = Tail(@)]
                          /\ viewport' = WriteTile(viewport, si, nCams,
                                                   Head(frame_queue[si]))
               /\ IF si + 1 < nCams
                     THEN si' = si + 1 /\ spc' = spc
                     ELSE si' = 0 /\ spc' = "display"
    /\ UNCHANGED <<gui, cam_nums, camera, runner, nCams, wpc, cam, start_event, stop_event, ready,
                   barrier_broken, all_ready, error_queue, acq, failed_cams,
                   startSnap, deadAtTick>>

\* cv2.imshow; k = cv2.waitKey(1); if k == 27: KEEPGOING = False; the while test
TM_Display ==
    /\ runner = "threading" /\ spc = "display"
    /\ \E esc \in BOOLEAN :
          /\ KEEPGOING' = (KEEPGOING /\ ~esc)
          /\ outcome' = IF KEEPGOING /\ esc THEN "quit" ELSE outcome
    /\ IF KEEPGOING'
          THEN spc' = "loop" /\ deadAtTick' = DeadNow
          ELSE spc' = "stop" /\ deadAtTick' = deadAtTick
    /\ si' = 0
    /\ UNCHANGED <<gui, cam_nums, camera, runner, nCams, wpc, cam, start_event, stop_event, ready,
                   barrier_broken, all_ready, error_queue, frame_queue, acq,
                   viewport, failed_cams, errored, startSnap>>

\* cv2.imshow / cv2.waitKey raises; except Exception: traceback.print_exc()
TM_DisplayRaise ==
    /\ runner = "threading" /\ spc = "display"
    /\ outcome' = IF outcome = "none" THEN "main_error" ELSE outcome
    /\ spc' = "stop"
    /\ UNCHANGED <<gui, cam_nums, camera, runner, nCams, si, KEEPGOING, wpc, cam, start_event, stop_event,
                   ready, barrier_broken, all_ready, error_queue, frame_queue, acq,
                   viewport, failed_cams, errored, startSnap, deadAtTick>>

\* stop_event.set(); cv2.destroyWindow(winName)
TM_Stop ==
    /\ runner = "threading" /\ spc = "stop"
    /\ stop_event' = TRUE
    /\ spc' = "join"
    /\ si' = 0
    /\ UNCHANGED <<gui, cam_nums, camera, runner, nCams, KEEPGOING, wpc, cam, start_event, ready,
                   barrier_broken, all_ready, error_queue, frame_queue, acq,
                   viewport, failed_cams, errored, outcome, startSnap, deadAtTick>>

\* for cam_thread in cam_threads: cam_thread.join(timeout=3); print Done
TM_Join ==
    /\ runner = "threading" /\ spc = "join"
    /\ wpc' = JoinThread(wpc, si)
    /\ IF si + 1 < nCams
          THEN si' = si + 1 /\ spc' = spc
          ELSE si' = 0 /\ spc' = "done"
    /\ UNCHANGED <<gui, cam_nums, camera, runner, nCams, KEEPGOING, cam, start_event, stop_event, ready,
                   barrier_broken, all_ready, error_queue, frame_queue, acq,
                   viewport, failed_cams, errored, outcome, startSnap, deadAtTick>>

-----------------------------------------------------------------------------
(* run_multi_camera_threading.run_func: the Worker thread *)

\* cam = Camera(...); cam.openVideoWriter(...); barrier.wait() is entered
RF_InitOK(i) ==
    /\ runner = "threading" /\ wpc[i] = "init"
    /\ cam' = [cam EXCEPT ![i] = "open"]
    /\ ready' = [ready EXCEPT ![i] = TRUE]
    /\ wpc' = [wpc EXCEPT ![i] = "barrier"]
    /\ UNCHANGED <<gui, cam_nums, camera, runner, nCams, spc, si, KEEPGOING, start_event, stop_event,
                   barrier_broken, all_ready, error_queue, frame_queue, acq,
                   viewport, failed_cams, errored, outcome, startSnap, deadAtTick>>

\* Faulty variant of RF_InitFail: the thread enters the barrier before it
\* initialises its camera, and the initialisation then raises.
RF_InitFail_AfterBarrier(i) ==
    /\ runner = "threading" /\ wpc[i] = "init"
    /\ \E c \in {"none", "open"} : cam' = [cam EXCEPT ![i] = c]
    /\ ready' = [ready EXCEPT ![i] = TRUE]
    /\ wpc' = [wpc EXCEPT ![i] = "exited"]
    /\ UNCHANGED <<gui, cam_nums, camera, runner, nCams, spc, si, KEEPGOING, start_event, stop_event,
                   barrier_broken, all_ready, error_queue, frame_queue, acq,
                   viewport, failed_cams, errored, outcome, startSnap, deadAtTick>>

\* Camera(...) or openVideoWriter raises: the thread ends with the exception.
RF_InitFail(i) ==
    /\ runner = "threading" /\ wpc[i] = "init"
    /\ \E c \in {"none", "open"} : cam' = [cam EXCEPT ![i] = c]
    /\ wpc' = [wpc EXCEPT ![i] = "exited"]
    /\ UNCHANGED <<gui, cam_nums, camera, runner, nCams, spc, si, KEEPGOING, start_event, stop_event,
                   ready, barrier_broken, all_ready, error_queue, frame_queue, acq,
                   viewport, failed_cams, errored, outcome, startSnap, deadAtTick>>

\* barrier.wait() raises BrokenBarrierError: the thread ends with the exception.
RF_BarrierBroken(i) ==
    /\ runner = "threading" /\ wpc[i] = "barrier"
    /\ barrier_broken
    /\ wpc' = [wpc EXCEPT ![i] = "exited"]
    /\ UNCHANGED <<gui, cam_nums, camera, runner, nCams, spc, si, KEEPGOING, cam, start_event, stop_event,
                   ready, barrier_broken, all_ready, error_queue, frame_queue, acq,
                   viewport, failed_cams, errored, outcome, startSnap, deadAtTick>>

\* start_event.wait() returns; cam.startCapture()
RF_StartCapture(i) ==
    /\ runner = "threading" /\ wpc[i] = "wait_start"
    /\ start_event
    /\ cam' = [cam EXCEPT ![i] = "capturing"]
    /\ wpc' = [wpc EXCEPT ![i] = "loop"]
    /\ UNCHANGED <<gui, cam_nums, camera, runner, nCams, spc, si, KEEPGOING, start_event, stop_event,
                   ready, barrier_broken, all_ready, error_queue, frame_queue, acq,
                   viewport, failed_cams, errored, outcome, startSnap, deadAtTick>>

\* start_event.wait() returns; cam.startCapture() raises: the thread ends.
RF_StartCaptureRaise(i) ==
    /\ runner = "threading" /\ wpc[i] = "wait_start"
    /\ start_event
    /\ wpc' = [wpc EXCEPT ![i] = "exited"]
    /\ UNCHANGED <<gui, cam_nums, camera, runner, nCams, spc, si, KEEPGOING, cam, start_event, stop_event,
                   ready, barrier_broken, all_ready, error_queue, frame_queue, acq,
                   viewport, failed_cams, errored, outcome, startSnap, deadAtTick>>

\* Faulty variant of RF_LoopTest: while True.
RF_LoopTest_WhileTrue(i) == "acquire"

\* while not stop_event.is_set()
RF_LoopTest(i) == IF stop_event THEN "teardown" ELSE "acquire"

RF_LoopCheck(i) ==
    /\ runner = "threading" /\ wpc[i] = "loop"
    /\ wpc' = [wpc EXCEPT ![i] = RF_LoopTest(i)]
    /\ UNCHANGED <<gui, cam_nums, camera, runner, nCams, spc, si, KEEPGOING, cam, start_event, stop_event,
                   ready, barrier_broken, all_ready, error_queue, frame_queue, acq,
                   viewport, failed_cams, errored, outcome, startSnap, deadAtTick>>

\* ret, img = cam.getImage(); if ret: arr = img2array(img).copy(); put_nowait(arr)
RF_GetImage(i) ==
    /\ runner = "threading" /\ wpc[i] = "acquire"
    /\ \E ret \in BOOLEAN :
          IF ret
             THEN /\ MoreFrames
                  /\ acq' = [acq EXCEPT ![i] = @ + 1]
                  /\ frame_queue' = [frame_queue EXCEPT
                                        ![i] = PutNowait(@, Image(CamNum(i), acq[i] + 1))]
             ELSE UNCHANGED <<acq, frame_queue>>
    /\ wpc' = [wpc EXCEPT ![i] = "loop"]
    /\ UNCHANGED <<gui, cam_nums, camera, runner, nCams, spc, si, KEEPGOING, cam, start_event, stop_event,
                   ready, barrier_broken, all_ready, error_queue, viewport,
                   failed_cams, errored, outcome, startSnap, deadAtTick>>

\* cam.getImage() returned an image and img2array raises: the thread ends.
RF_ConvertRaise(i) ==
    /\ runner = "threading" /\ wpc[i] = "acquire"
    /\ MoreFrames
    /\ acq' = [acq EXCEPT ![i] = @ + 1]
    /\ wpc' = [wpc EXCEPT ![i] = "exited"]
    /\ UNCHANGED <<gui, cam_nums, camera, runner, nCams, spc, si, KEEPGOING, cam, start_event, stop_event,
                   ready, barrier_broken, all_ready, error_queue, frame_queue,
                   viewport, failed_cams, errored, outcome, startSnap, deadAtTick>>

\* cam.getImage() does not return (the SDK's retrieveBuffer blocks)
RF_Hang(i) ==
    /\ runner = "threading" /\ wpc[i] = "acquire"
    /\ wpc' = [wpc EXCEPT ![i] = "hung"]
    /\ UNCHANGED <<gui, cam_nums, camera, runner, nCams, spc, si, KEEPGOING, cam, start_event, stop_event,
                   ready, barrier_broken, all_ready, error_queue, frame_queue, acq,
                   viewport, failed_cams, errored, outcome, startSnap, deadAtTick>>

\* cam.stopCapture(); cam.close(); the thread ends
RF_Teardown(i) ==
    /\ runner = "threading" /\ wpc[i] = "teardown"
    /\ cam' = [cam EXCEPT ![i] = "closed"]
    /\ wpc' = [wpc EXCEPT ![i] = "exited"]
    /\ UNCHANGED <<gui, cam_nums, camera, runner, nCams, spc, si, KEEPGOING, start_event, stop_event,
                   ready, barrier_broken, all_ready, error_queue, frame_queue, acq,
                   viewport, failed_cams, errored, outcome, startSnap, deadAtTick>>

\* cam.stopCapture() raises: the thread ends with the exception, cam.close() is
\* not reached.
RF_TeardownRaise(i) ==
    /\ runner = "threading" /\ wpc[i] = "teardown"
    /\ wpc' = [wpc EXCEPT ![i] = "exited"]
    /\ UNCHANGED <<gui, cam_nums, camera, runner, nCams, spc, si, KEEPGOING, cam, start_event, stop_event,
                   ready, barrier_broken, all_ready, error_queue, frame_queue, acq,
                   viewport, failed_cams, errored, outcome, startSnap, deadAtTick>>

TM_Supervisor ==
    \/ TM_Spawn \/ TM_BarrierPass \/ TM_BarrierTimeout \/ TM_Setup
    \/ TM_SetupRaise \/ TM_TickCam \/ TM_Display \/ TM_DisplayRaise
    \/ TM_Stop \/ TM_Join

RF_Returning(i) ==
    \/ RF_InitOK(i) \/ RF_InitFail(i) \/ RF_BarrierBroken(i)
    \/ RF_StartCapture(i) \/ RF_StartCaptureRaise(i) \/ RF_LoopCheck(i)
    \/ RF_GetImage(i) \/ RF_ConvertRaise(i) \/ RF_Teardown(i)
    \/ RF_TeardownRaise(i)

-----------------------------------------------------------------------------
(* run_multi_cameras.main: the Supervisor; the cameras were opened by main *)

\* for t in threads: t.start()
CM_Spawn ==
    /\ runner = "multi_cameras" /\ spc = "spawn"
    /\ wpc' = [wpc EXCEPT ![si] = "wait_start"]
    /\ IF si + 1 < nCams
          THEN si' = si + 1 /\ spc' = spc
          ELSE si' = 0 /\ spc' = "setup"
    /\ UNCHANGED <<gui, cam_nums, camera, runner, nCams, KEEPGOING, cam, start_event, stop_event, ready,
                   barrier_broken, all_ready, error_queue, frame_queue, acq,
                   viewport, failed_cams, errored, outcome, startSnap, deadAtTick>>

\* cv2.namedWindow(winName); the try block is entered
CM_Setup ==
    /\ runner = "multi_cameras" /\ spc = "setup"
    /\ spc' = "sync"
    /\ UNCHANGED <<gui, cam_nums, camera, runner, nCams, si, KEEPGOING, wpc, cam, start_event, stop_event,
                   ready, barrier_broken, all_ready, error_queue, frame_queue, acq,
                   viewport, failed_cams, errored, outcome, startSnap, deadAtTick>>

\* cv2.namedWindow raises: the exception leaves main.
CM_SetupRaise ==
    /\ runner = "multi_cameras" /\ spc = "setup"
    /\ spc' = "raised"
    /\ outcome' = "raised"
    /\ UNCHANGED <<gui, cam_nums, camera, runner, nCams, si, KEEPGOING, wpc, cam, start_event, stop_event,
                   ready, barrier_broken, all_ready, error_queue, frame_queue, acq,
                   viewport, failed_cams, errored, startSnap, deadAtTick>>

\* startSyncCapture(cam_handles); start_event.set()
CM_Sync ==
    /\ runner = "multi_cameras" /\ spc = "sync"
    /\ cam' = [i \in Cams |-> IF cam[i] = "open" THEN "capturing" ELSE cam[i]]
    /\ start_event' = TRUE
    /\ startSnap' = SnapAtStart
    /\ spc' = "loop"
    /\ si' = 0
    /\ UNCHANGED <<gui, cam_nums, camera, runner, nCams, KEEPGOING, wpc, stop_event, ready, deadAtTick,
                   barrier_broken, all_ready, error_queue, frame_queue, acq,
                   viewport, failed_cams, errored, outcome>>

\* startSyncCapture raises; except Exception
CM_SyncRaise ==
    /\ runner = "multi_cameras" /\ spc = "sync"
    /\ outcome' = "main_error"
    /\ spc' = "except_start"
    /\ UNCHANGED <<gui, cam_nums, camera, runner, nCams, si, KEEPGOING, wpc, cam, start_event, stop_event,
                   ready, barrier_broken, all_ready, error_queue, frame_queue, acq,
                   viewport, failed_cams, errored, startSnap, deadAtTick>>

\* Body of `for i, q in enumerate(frame_queues)`: img = q.get_nowait();
\* viewports[i] = np.pad(img2array(img), ...): img2array raises on what is no image.
CM_TickQueue ==
    /\ runner = "multi_cameras" /\ spc = "loop"
    /\ IF frame_queue[si] = <<>>
          THEN /\ UNCHANGED <<frame_queue, viewport, outcome>>
               /\ IF si + 1 < nCams
                     THEN si' = si + 1 /\ spc' = spc
                     ELSE si' = 0 /\ spc' = "display"
          ELSE /\ frame_queue' = [frame_queue EXCEPT ![si] = Tail(@)]
               /\ IF IsImage(Head(frame_queue[si]))
                     THEN /\ viewport' = WriteTile(viewport, si, nCams,
                                                   Head(frame_queue[si]))
                          /\ outcome' = outcome
                          /\ IF si + 1 < nCams
                                THEN si' = si + 1 /\ spc' = spc
                                ELSE si' = 0 /\ spc' = "display"
                     ELSE /\ viewport' = viewport
                          /\ outcome' = "main_error"
                          /\ si' = si
                          /\ spc' = "except_start"
    /\ UNCHANGED <<gui, cam_nums, camera, runner, nCams, KEEPGOING, wpc, cam, start_event, stop_event,
                   ready, barrier_broken, all_ready, error_queue, acq,
                   failed_cams, errored, startSnap, deadAtTick>>

\* np.block, cv2.imshow, k = cv2.waitKey(1); if k == 27: stop_event.set(); break
CM_Display ==
    /\ runner = "multi_cameras" /\ spc = "display"
    /\ \E esc \in BOOLEAN :
          IF esc
             THEN /\ stop_event' = TRUE
                  /\ outcome' = "quit"
                  /\ spc' = "join"
                  /\ deadAtTick' = deadAtTick
             ELSE /\ stop_event' = stop_event
                  /\ outcome' = outcome
                  /\ spc' = "loop"
                  /\ deadAtTick' = deadAtTick
    /\ si' = 0
    /\ UNCHANGED <<gui, cam_nums, camera, runner, nCams, KEEPGOING, wpc, cam, start_event, ready,
                   barrier_broken, all_ready, error_queue, frame_queue, acq,
                   viewport, failed_cams, errored, startSnap>>

\* np.block / cv2.imshow / cv2.waitKey raises; except Exception
CM_DisplayRaise ==
    /\ runner = "multi_cameras" /\ spc = "display"
    /\ outcome' = "main_error"
    /\ spc' = "except_start"
    /\ UNCHANGED <<gui, cam_nums, camera, runner, nCams, si, KEEPGOING, wpc, cam, start_event, stop_event,
                   ready, barrier_broken, all_ready, error_queue, frame_queue, acq,
                   viewport, failed_cams, errored, startSnap, deadAtTick>>

\* except Exception: start_event.set()
CM_ExceptStart ==
    /\ runner = "multi_cameras" /\ spc = "except_start"
    /\ start_event' = TRUE
    /\ startSnap' = SnapAtStart
    /\ spc' = "except_stop"
    /\ UNCHANGED <<gui, cam_nums, camera, runner, nCams, si, KEEPGOING, wpc, cam, stop_event, ready,
                   barrier_broken, all_ready, error_queue, frame_queue, acq,
                   viewport, failed_cams, errored, outcome, deadAtTick>>

\* stop_event.set(); traceback.print_exc(); cv2.destroyWindow(winName)
CM_ExceptStop ==
    /\ runner = "multi_cameras" /\ spc = "except_stop"
    /\ stop_event' = TRUE
    /\ spc' = "join"
    /\ si' = 0
    /\ UNCHANGED <<gui, cam_nums, camera, runner, nCams, KEEPGOING, wpc, cam, start_event, ready,
                   barrier_broken, all_ready, error_queue, frame_queue, acq,
                   viewport, failed_cams, errored, outcome, startSnap, deadAtTick>>

\* for t in threads: t.join(timeout=3); print Done
CM_Join ==
    /\ runner = "multi_cameras" /\ spc = "join"
    /\ wpc' = JoinThread(wpc, si)
    /\ IF si + 1 < nCams
          THEN si' = si + 1 /\ spc' = spc
          ELSE si' = 0 /\ spc' = "done"
    /\ UNCHANGED <<gui, cam_nums, camera, runner, nCams, KEEPGOING, cam, start_event, stop_event, ready,
                   barrier_broken, all_ready, error_queue, frame_queue, acq,
                   viewport, failed_cams, errored, outcome, startSnap, deadAtTick>>

-----------------------------------------------------------------------------
(* run_multi_cameras.capture_func: the Worker thread *)

\* start_event.wait() returns
CF_WaitStart(i) ==
    /\ runner = "multi_cameras" /\ wpc[i] = "wait_start"
    /\ start_event
    /\ wpc' = [wpc EXCEPT ![i] = "loop"]
    /\ UNCHANGED <<gui, cam_nums, camera, runner, nCams, spc, si, KEEPGOING, cam, start_event, stop_event,
                   ready, barrier_broken, all_ready, error_queue, frame_queue, acq,
                   viewport, failed_cams, errored, outcome, startSnap, deadAtTick>>

\* while not stop_event.is_set()
CF_LoopTest(i) == IF stop_event THEN "teardown" ELSE "acquire"

CF_LoopCheck(i) ==
    /\ runner = "multi_cameras" /\ wpc[i] = "loop"
    /\ wpc' = [wpc EXCEPT ![i] = CF_LoopTest(i)]
    /\ UNCHANGED <<gui, cam_nums, camera, runner, nCams, spc, si, KEEPGOING, cam, start_event, stop_event,
                   ready, barrier_broken, all_ready, error_queue, frame_queue, acq,
                   viewport, failed_cams, errored, outcome, startSnap, deadAtTick>>

\* ret, img = cam.getImage(); if ret: frame_queue.put_nowait(ret)
\* (getImage returns False when the camera is not capturing)
CF_GetImage(i) ==
    /\ runner = "multi_cameras" /\ wpc[i] = "acquire"
    /\ \E ret \in BOOLEAN :
          IF ret
             THEN /\ cam[i] = "capturing"
                  /\ MoreFrames
                  /\ acq' = [acq EXCEPT ![i] = @ + 1]
                  /\ frame_queue' = [frame_queue EXCEPT ![i] = PutNowait(@, RetTrue)]
             ELSE UNCHANGED <<acq, frame_queue>>
    /\ wpc' = [wpc EXCEPT ![i] = "loop"]
    /\ UNCHANGED <<gui, cam_nums, camera, runner, nCams, spc, si, KEEPGOING, cam, start_event, stop_event,
                   ready, barrier_broken, all_ready, error_queue, viewport,
                   failed_cams, errored, outcome, startSnap, deadAtTick>>

\* cam.getImage() does not return (the SDK's retrieveBuffer blocks)
CF_Hang(i) ==
    /\ runner = "multi_cameras" /\ wpc[i] = "acquire"
    /\ wpc' = [wpc EXCEPT ![i] = "hung"]
    /\ UNCHANGED <<gui, cam_nums, camera, runner, nCams, spc, si, KEEPGOING, cam, start_event, stop_event,
                   ready, barrier_broken, all_ready, error_queue, frame_queue, acq,
                   viewport, failed_cams, errored, outcome, startSnap, deadAtTick>>

\* cam.stop_capture() raises AttributeError (Camera has stopCapture only), so the
\* loop that drains the buffer is not reached; except Exception: print_exc();
\* cam.close(); the thread ends
CF_Teardown(i) ==
    /\ runner = "multi_cameras" /\ wpc[i] = "teardown"
    /\ cam' = [cam EXCEPT ![i] = "closed"]
    /\ wpc' = [wpc EXCEPT ![i] = "exited"]
    /\ UNCHANGED <<gui, cam_nums, camera, runner, nCams, spc, si, KEEPGOING, start_event, stop_event,
                   ready, barrier_broken, all_ready, error_queue, frame_queue, acq,
                   viewport, failed_cams, errored, outcome, startSnap, deadAtTick>>

CM_Supervisor ==
    \/ CM_Spawn \/ CM_Setup \/ CM_SetupRaise \/ CM_Sync \/ CM_SyncRaise
    \/ CM_TickQueue \/ CM_Display \/ CM_DisplayRaise \/ CM_ExceptStart
    \/ CM_ExceptStop \/ CM_Join

CF_Returning(i) ==
    \/ CF_WaitStart(i) \/ CF_LoopCheck(i) \/ CF_GetImage(i) \/ CF_Teardown(i)

-----------------------------------------------------------------------------
(* Specifications *)

Supervisor == MM_Supervisor \/ TM_Supervisor \/ CM_Supervisor

\* A Worker's steps that return
Worker(i) == PC_Returning(i) \/ RF_Returning(i) \/ CF_Returning(i)

\* A Worker blocks for good inside cam.getImage()
Hang(i) == PC_Hang(i) \/ RF_Hang(i) \/ CF_Hang(i)

Next == Supervisor \/ (\E i \in Cams : Worker(i)) \/ (\E i \in Cams : Hang(i))

Spec == Init /\ [][Next]_vars

\* Every frame-acquisition call returns, and the scheduler is fair to the
\* Supervisor and to each Worker.
NextReturning == Supervisor \/ (\E i \in Cams : Worker(i))

FairSpec ==
    /\ Init
    /\ [][NextReturning]_vars
    /\ WF_vars(Supervisor)
    /\ \A i \in 0 .. (MaxCams - 1) : WF_vars(i \in Cams /\ Worker(i))

-----------------------------------------------------------------------------
(* Properties *)

\* The Worker's initialisation (Camera(...) / openVideoWriter) raised.
InitFailed(i) ==
    /\ ~ready[i]
    /\ IF runner = "multi_main" THEN error_queue[i] # "none" ELSE wpc[i] = "exited"

InitFailedSet == {i \in Cams : InitFailed(i)}

AllSignalledReady == \A i \in Cams : ready[i]

\* Start was set when every Worker had signalled ready and Stop was not set.
StartedAsGo ==
    start_event /\ startSnap[1].rdy = Cams /\ ~startSnap[1].stop

\* C1 as stated: in multi_main and threading main, when all N Workers initialise
\* successfully, Start was set only after every Worker had signalled ready.
C1_StartOnlyAfterAllReady ==
    (runner \in {"multi_main", "threading"} /\ start_event /\ AllSignalledReady)
        => startSnap[1].rdy = Cams

\* C1 amended: Start is set only after every Worker has signalled ready or, on
\* multi_main's failed readiness wait, after Stop; no Worker has called
\* startCapture before Start is set; no Worker acquires a frame unless Start was
\* set with all Workers ready.
C1_StartAfterReadyOrStop ==
    runner \in {"multi_main", "threading"} =>
        /\ start_event => (startSnap[1].rdy = Cams \/ startSnap[1].stop)
        /\ \A i \in Cams : cam[i] = "capturing" => start_event
        /\ \A i \in Cams : acq[i] > 0 => StartedAsGo

C1_Witness ==
    /\ runner \in {"multi_main", "threading"}
    /\ nCams = 2
    /\ StartedAsGo
    /\ \A i \in Cams : acq[i] > 0

\* C2: in multi_main, once a Worker's initialisation has failed, no Worker has
\* captured a frame and the Supervisor is not (and was never) in its display
\* loop: it is still spawning or polling, or on the failure path.
C2_NoCaptureAfterInitFailure ==
    (runner = "multi_main" /\ InitFailedSet # {}) =>
        /\ \A j \in Cams : acq[j] = 0
        /\ spc \in {"spawn", "poll", "poll_end", "poll_exit",
                    "fail_start", "fail_join", "done"}
        /\ spc = "done" => (outcome = "init_failed" /\ stop_event)

C2_Witness ==
    /\ runner = "multi_main"
    /\ nCams = 2
    /\ spc = "done"
    /\ InitFailedSet # {}
    /\ \E j \in Cams : ready[j] /\ cam[j] = "closed" /\ wpc[j] = "exited"

\* C3: in multi_main, the failure report names every Source whose initialisation
\* failed, and when the Supervisor has returned from the failure path every
\* Worker is stopped (it has exited or was terminated).
C3_ReportNamesFailedSource ==
    (runner = "multi_main" /\ outcome = "init_failed") =>
        /\ InitFailedSet \subseteq failed_cams
        /\ spc = "done" => \A j \in Cams : ~Running(j)

C3_Witness ==
    /\ runner = "multi_main"
    /\ nCams = 2
    /\ spc = "done"
    /\ InitFailedSet = {1}
    /\ 1 \in failed_cams
    /\ ready[0]
    /\ wpc[0] = "terminated"

\* The tick-loop runners that display frames taken from the Workers' queues.
FrameRunner == runner \in {"multi_main", "threading"}

\* Worker i completes an acquisition and returns to the head of its loop.
Pushes(i) ==
    /\ wpc[i] = "acquire"
    /\ acq'[i] = acq[i] + 1
    /\ wpc'[i] \notin {"finally", "exited"}

\* C4: every frame queue holds at most one undelivered frame; a push onto a full
\* queue leaves the older frame in place, a push onto an empty queue stores the
\* new frame, and in both cases the Worker goes on to its next loop test.
C4_QueueKeepsOldFrame ==
    /\ [](\A i \in Cams : Len(frame_queue[i]) <= QueueMaxsize)
    /\ [][\A i \in Cams : Pushes(i) =>
            /\ wpc'[i] = "loop"
            /\ IF frame_queue[i] # <<>>
                 THEN frame_queue'[i] = frame_queue[i]
                 ELSE Len(frame_queue'[i]) = 1]_vars

C4_Witness ==
    /\ FrameRunner
    /\ \E i \in Cams :
        /\ acq[i] = 2
        /\ wpc[i] = "loop"
        /\ frame_queue[i] = <<Image(i, 1)>>
        /\ viewport[UnravelIndex(i, nCams)] = Blank

\* C5: in the tick loop a tile changes only when the Supervisor polls the queue
\* of the Source that owns the tile and finds a frame there, and the tile then
\* shows that frame; with an empty queue, or at another Source's poll, the tile
\* is left as it was.
C5_TileChangesOnlyByOwnFrame ==
    [][FrameRunner =>
        \A t \in DOMAIN viewport : viewport'[t] # viewport[t] =>
            \E i \in Cams :
                /\ spc = "loop" /\ si = i
                /\ UnravelIndex(i, nCams) = t
                /\ frame_queue[i] # <<>>
                /\ Head(frame_queue[i])[2] = i
                /\ viewport'[t] = Head(frame_queue[i])]_vars

C5_Witness ==
    /\ FrameRunner
    /\ nCams = 2
    /\ spc = "loop" /\ si = 1
    /\ frame_queue[0] = <<>>
    /\ frame_queue[1] = <<>>
    /\ viewport[UnravelIndex(0, nCams)] = Image(0, 1)
    /\ viewport[UnravelIndex(1, nCams)] = Image(1, 1)

\* The Supervisor has found a dead Worker at a liveness check.
DeathDetected == spc = "died" \/ outcome = "died"

\* The Supervisor takes a step of its own.
SupervisorSteps == <<spc, si>>' # <<spc, si>>

\* C6: in multi_main and threading main, a tick that begins with a dead Worker
\* never completes undetected; the liveness check on a dead Worker reads no
\* frame and records the death; after detection no frame is read and no tile
\* is written, and the Supervisor only moves on to set Stop and join.
C6_DeathDetectedWithinTick ==
    /\ [](FrameRunner /\ spc = "display" /\ deadAtTick # {} => DeathDetected)
    /\ [][(FrameRunner /\ spc = "loop" /\ wpc[si] \in {"exited", "terminated"}
             /\ SupervisorSteps) =>
            /\ si \in errored'
            /\ spc' \in {"died", "display"}
            /\ DeathDetected'
            /\ frame_queue' = frame_queue /\ viewport' = viewport]_vars
    /\ [][(FrameRunner /\ DeathDetected) =>
            /\ viewport' = viewport
            /\ \A i \in Cams : Len(frame_queue'[i]) >= Len(frame_queue[i])
            /\ DeathDetected'
            /\ spc' \in {"died", "display", "finally", "stop", "join", "done"}]_vars
    /\ [](FrameRunner /\ DeathDetected /\ spc \in {"join", "done"} => stop_event)

C6_Witness ==
    /\ FrameRunner
    /\ nCams = 2
    /\ DeathDetected
    /\ errored = {1}
    /\ frame_queue[1] # <<>>
    /\ spc = "done"
    /\ stop_event

\* The Supervisor has returned (normally or by an uncaught exception).
SupervisorReturned == spc \in {"done", "raised"}

\* C7: once Stop has been set and the Supervisor has returned, no Worker is
\* still running: each was joined or forcibly terminated, in every runner.
C7_NoWorkerOutlivesShutdown ==
    (stop_event /\ SupervisorReturned) => \A i \in Cams : ~Running(i)

\* C8: when the readiness wait has failed and the Supervisor has returned, Stop
\* and Start have both been set, Stop before Start, and no Worker is running.
C8_ReadinessFailureStopsWorkers ==
    (outcome = "init_failed" /\ SupervisorReturned) =>
        /\ stop_event
        /\ start_event
        /\ startSnap[1].stop
        /\ \A i \in Cams : ~Running(i)

\* multi_main's control points grouped into the Supervisor's phases.
Phase(pc) ==
    CASE pc = "spawn" -> "CREATED"
      [] pc \in {"poll", "poll_end", "poll_exit", "setup"} -> "AWAITING_READY"
      [] pc \in {"loop", "died", "display", "finally"} -> "RUNNING"
      [] pc \in {"fail_start", "fail_join", "join"} -> "STOPPING"
      [] OTHER -> "DONE"

PhaseOrder ==
    {<<"CREATED", "AWAITING_READY">>, <<"AWAITING_READY", "RUNNING">>,
     <<"AWAITING_READY", "STOPPING">>, <<"RUNNING", "STOPPING">>,
     <<"STOPPING", "DONE">>}

\* C9: in multi_main the Supervisor's phase moves only along CREATED ->
\* AWAITING_READY -> RUNNING -> STOPPING -> DONE or AWAITING_READY -> STOPPING;
\* it is RUNNING only with every Worker ready, and DONE only with every Worker
\* joined or terminated.
C9_PhaseOrder ==
    /\ [][runner = "multi_main" =>
            \/ Phase(spc') = Phase(spc)
            \/ <<Phase(spc), Phase(spc')>> \in PhaseOrder]_vars
    /\ [](runner = "multi_main" /\ Phase(spc) = "RUNNING" => AllSignalledReady)
    /\ [](runner = "multi_main" /\ Phase(spc) = "DONE" =>
            \A i \in Cams : ~Running(i))

\* Worker i has left its capture loop.
LeftLoop(i) == wpc[i] \in {"finally", "teardown", "exited", "terminated"}

\* C10: once Stop is set every Worker eventually halts, and a Worker that has
\* left its capture loop acquires no further frame and never re-enters the loop.
C10_StopHaltsWorkers ==
    /\ stop_event ~> (\A i \in Cams : ~Running(i))
    /\ [][\A i \in Cams : LeftLoop(i) =>
            /\ acq'[i] = acq[i]
            /\ LeftLoop(i)']_vars
    /\ [][\A i \in Cams : (stop_event /\ wpc[i] = "loop" /\ wpc'[i] # wpc[i]) =>
            LeftLoop(i)']_vars

C10_Witness ==
    /\ stop_event
    /\ nCams = 2
    /\ \A i \in Cams : wpc[i] = "exited" /\ cam[i] = "closed" /\ acq[i] > 0

\* C11: a Worker that has started its camera and has exited has stopped and
\* closed that camera: no exited Worker leaves its camera capturing.
C11_TeardownClosesCamera ==
    \A i \in Cams : wpc[i] = "exited" => cam[i] # "capturing"

\* The steps an error queue can take: one put, then the feeder's write or the
\* loss of the buffered item, then the Supervisor's get.
ErrorQueueSteps ==
    {<<"none", "buffered">>, <<"buffered", "avail">>, <<"buffered", "lost">>,
     <<"avail", "got">>}

\* C12: in ParallelCamera.run a Worker that exits without Stop being set has
\* raised, and its exception was put on its error queue; a Worker puts at most
\* one error; once it has put one it is on its way out and never returns to
\* initialisation or to the capture loop.
C12_ErrorPutOnceThenExit ==
    /\ [](runner = "multi_main" =>
            \A i \in Cams :
                /\ (wpc[i] = "exited" /\ ~stop_event) => error_queue[i] # "none"
                /\ error_queue[i] # "none" =>
                       wpc[i] \in {"finally", "exited", "terminated"})
    /\ [][runner = "multi_main" =>
            \A i \in Cams :
                /\ error_queue'[i] # error_queue[i] =>
                       <<error_queue[i], error_queue'[i]>> \in ErrorQueueSteps
                /\ wpc[i] \in {"finally", "exited"} =>
                       wpc'[i] \in {"finally", "exited", "terminated"}]_vars

C12_Witness ==
    /\ runner = "multi_main"
    /\ ~stop_event
    /\ \E i \in Cams :
        /\ wpc[i] = "exited"
        /\ acq[i] > 0
        /\ cam[i] = "closed"
        /\ error_queue[i] = "avail"

ShutdownEntry == IF runner = "multi_main" THEN "finally" ELSE "stop"

C15_SignalsMonotonic ==
    [][/\ start_event => start_event'
       /\ stop_event => stop_event']_vars

C15_Witness ==
    /\ start_event /\ stop_event
    /\ spc = "done"
    /\ \E i \in Cams : acq[i] > 0

\* The frame number of what tile t shows (0 for a tile never written).
Shown(t) == viewport[t][3]

\* C16: the frames the Supervisor receives from a Worker's queue are frames that
\* Worker acquired, in acquisition order and without repetition: a queued frame
\* is one the Worker acquired and is later than the last frame received from
\* that Worker, and a receive takes exactly the queued frame.
C16_FifoPerSource ==
    /\ [](FrameRunner =>
            \A i \in Cams : frame_queue[i] # <<>> =>
                /\ Head(frame_queue[i])[1] = "img"
                /\ Head(frame_queue[i])[2] = i
                /\ Head(frame_queue[i])[3] \in 1 .. acq[i]
                /\ Head(frame_queue[i])[3] > Shown(UnravelIndex(i, nCams)))
    /\ [][FrameRunner =>
            \A i \in Cams :
                /\ (frame_queue[i] # <<>> /\ frame_queue'[i] # frame_queue[i]) =>
                      /\ frame_queue'[i] = <<>>
                      /\ viewport'[UnravelIndex(i, nCams)] = Head(frame_queue[i])
                /\ Shown(UnravelIndex(i, nCams))' >= Shown(UnravelIndex(i, nCams))
                /\ Shown(UnravelIndex(i, nCams))' # Shown(UnravelIndex(i, nCams)) =>
                      frame_queue[i] # <<>> /\ frame_queue'[i] = <<>>]_vars

C16_Witness ==
    /\ FrameRunner
    /\ \E i \in Cams :
        /\ acq[i] = 2
        /\ frame_queue[i] = <<>>
        /\ viewport[UnravelIndex(i, nCams)] = Image(i, 2)

-----------------------------------------------------------------------------
(* The viewport grid on its own: a frame from each position is written to *)
(* its tile, for every number of cameras up to MaxGridCams.               *)

GridInit ==
    /\ runner = "multi_main"
    /\ nCams \in 1 .. MaxGridCams
    /\ spc = "loop"
    /\ si = 0
    /\ KEEPGOING = TRUE
    /\ wpc = [i \in 0 .. (nCams - 1) |-> "loop"]
    /\ cam = [i \in 0 .. (nCams - 1) |-> "capturing"]
    /\ start_event = TRUE
    /\ stop_event = FALSE
    /\ ready = [i \in 0 .. (nCams - 1) |-> TRUE]
    /\ barrier_broken = FALSE
    /\ all_ready = [i \in 0 .. (nCams - 1) |-> TRUE]
    /\ error_queue = [i \in 0 .. (nCams - 1) |-> "none"]
    /\ frame_queue = [i \in 0 .. (nCams - 1) |-> <<Image(i, 1)>>]
    /\ acq = [i \in 0 .. (nCams - 1) |-> 1]
    /\ viewport = [t \in Tiles(nCams) |-> Blank]
    /\ failed_cams = {}
    /\ errored = {}
    /\ outcome = "none"
    /\ startSnap = <<[rdy |-> 0 .. (nCams - 1), stop |-> FALSE]>>
    /\ deadAtTick = {}
    /\ camera = NewCamera
    /\ cam_nums = [p \in 1 .. nCams |-> p - 1]
    /\ gui = NewGui

\* One pass of the for loop over parCams: frame = get_nowait(); write its tile.
GridPlace ==
    /\ spc = "loop" /\ si < nCams
    /\ frame_queue[si] # <<>>
    /\ frame_queue' = [frame_queue EXCEPT ![si] = Tail(@)]
    /\ viewport' = WriteTile(viewport, si, nCams, Head(frame_queue[si]))
    /\ si' = si + 1
    /\ UNCHANGED <<gui, cam_nums, camera, runner, nCams, spc, KEEPGOING, wpc, cam, start_event, stop_event,
                   ready, barrier_broken, all_ready, error_queue, acq,
                   failed_cams, errored, outcome, startSnap, deadAtTick>>

GridNext == GridPlace

GridSpec == GridInit /\ [][GridNext]_vars

\* C17: rows = floor(sqrt(N)) >= 1, cols = ceil(N / rows), rows * cols >= N; the
\* row-major mapping sends positions 0 .. N-1 to pairwise distinct tiles of the
\* rows x cols grid (rows = 1 and cols = 3 for N = 3); every frame written so far
\* is still shown in its own tile and the other tiles are blank.
C17_GridTiling ==
    LET r == NRows(nCams)
        c == NCols(nCams)
    IN  /\ r >= 1
        /\ r * r <= nCams /\ (r + 1) * (r + 1) > nCams
        /\ c * r >= nCams /\ (c - 1) * r < nCams
        /\ nCams = 3 => (r = 1 /\ c = 3)
        /\ \A p \in Cams :
              /\ UnravelIndex(p, nCams) = <<p \div c, p % c>>
              /\ UnravelIndex(p, nCams)[1] \in 0 .. (r - 1)
              /\ UnravelIndex(p, nCams)[2] \in 0 .. (c - 1)
              /\ \A q \in Cams :
                    p # q => UnravelIndex(p, nCams) # UnravelIndex(q, nCams)
        /\ DOMAIN viewport = (0 .. (r - 1)) \X (0 .. (c - 1))
        /\ \A p \in Cams :
              p < si => viewport[UnravelIndex(p, nCams)] = Image(p, 1)
        /\ Cardinality({t \in DOMAIN viewport : viewport[t] # Blank}) = si

C17_Witness ==
    /\ nCams = 3
    /\ si = 3
    /\ DOMAIN viewport = {<<0, 0>>, <<0, 1>>, <<0, 2>>}
    /\ \A p \in 0 .. 2 : viewport[<<0, p>>] = Image(p, 1)

C19_NoRetryFailFast ==
    /\ [](runner = "multi_main" /\ spc # "spawn" =>
            \A i \in Cams : wpc[i] # "unborn")
    /\ [][runner = "multi_main" =>
            \A i \in Cams :
                /\ (wpc'[i] = "init" /\ wpc[i] # "init") =>
                      wpc[i] = "unborn" /\ spc = "spawn" /\ si = i
                /\ wpc[i] \in {"exited", "terminated"} => wpc'[i] = wpc[i]]_vars
    /\ [][(runner = "multi_main" /\ (DeathDetected \/ outcome = "init_failed")) =>
            spc' \in {"died", "finally", "join", "fail_start", "fail_join",
                      "done"}]_vars
    /\ [](runner = "multi_main" /\ spc = "display" /\ deadAtTick # {} =>
            spc = "died" \/ errored # {})
    /\ (runner = "multi_main" /\ spc \in {"loop", "display"}
          /\ \E i \in Cams : wpc[i] = "exited") ~> stop_event

C19_Witness ==
    /\ runner = "multi_main"
    /\ nCams = 2
    /\ spc = "done"
    /\ errored = {0}
    /\ wpc[0] = "exited" /\ error_queue[0] # "none"
    /\ wpc[1] \in {"exited", "terminated"} /\ acq[1] > 0

-----------------------------------------------------------------------------
(* FlyCaptureUtils.Camera used on its own: one object and its methods.       *)
(* A call whose SDK call raises before anything is assigned changes nothing  *)
(* and is left out.                                                          *)

CamInit ==
    /\ runner = "multi_main"
    /\ nCams = 1
    /\ spc = "spawn"
    /\ si = 0
    /\ KEEPGOING = TRUE
    /\ wpc = [i \in {0} |-> "unborn"]
    /\ cam = [i \in {0} |-> "none"]
    /\ start_event = FALSE
    /\ stop_event = FALSE
    /\ ready = [i \in {0} |-> FALSE]
    /\ barrier_broken = FALSE
    /\ all_ready = [i \in {0} |-> FALSE]
    /\ error_queue = [i \in {0} |-> "none"]
    /\ frame_queue = [i \in {0} |-> <<>>]
    /\ acq = [i \in {0} |-> 0]
    /\ viewport = [t \in Tiles(1) |-> Blank]
    /\ failed_cams = {}
    /\ errored = {}
    /\ outcome = "none"
    /\ startSnap = <<>>
    /\ deadAtTick = {}
    /\ camera = NewCamera
    /\ cam_nums = [p \in 1 .. nCams |-> p - 1]
    /\ gui = NewGui

SessionUnchanged ==
    UNCHANGED <<runner, nCams, spc, si, KEEPGOING, wpc, cam, start_event,
                stop_event, ready, barrier_broken, all_ready, error_queue,
                frame_queue, acq, viewport, failed_cams, errored, outcome,
                startSnap, deadAtTick, cam_nums>>

\* Camera.stopCapture: self.cam.stopCapture(); self._capture_isOn = False
StopCapture(c) == [c EXCEPT !.cam_capturing = FALSE, !._capture_isOn = FALSE]

\* Camera.closeVideoWriter: self.video_writer.close(); self._video_writer_isOpen = False
CloseVideoWriter(c) ==
    [c EXCEPT !.open_writers = @ \ {c.video_writer}, !._video_writer_isOpen = FALSE]

\* Faulty variant of FileExists: the '-0000' variant of the filename is not looked at.
FileExists_NoAlt(file_exists, alt_exists) == file_exists

\* os.path.isfile(filename) or os.path.isfile(alt_filename)
FileExists(file_exists, alt_exists) == file_exists \/ alt_exists

\* Camera.openVideoWriter(filename, file_format, overwrite, csv_timestamps=csv)
\* with a filename of extension ext. file_exists, alt_exists: os.path.isfile of
\* the filename and of its '-0000' variant; csv_exists: of the timestamps file;
\* ok: the SDK's AVIOpen / MJPGOpen / H264Open succeeds and the image size is
\* known (else it raises after self.video_writer was replaced); dropped: the
\* writer object that self.video_writer replaces is closed when it is released
\* (else it stays open).
OpenVideoWriter(file_format, ext, overwrite, file_exists, alt_exists) ==
    LET r == ResolveFormat(file_format, ext)
        call == [NoCall EXCEPT !.op = "openVideoWriter",
                               !.file_format = file_format, !.ext = ext,
                               !.overwrite = overwrite,
                               !.file_exists = file_exists,
                               !.alt_exists = alt_exists,
                               !.format = r.format, !.filename_ext = r.ext]
    IN  IF r.raised # ""
           THEN camera' = [camera EXCEPT !.last = [call EXCEPT !.raised = r.raised]]
        ELSE IF ~overwrite /\ FileExists(file_exists, alt_exists)
           THEN camera' = [camera EXCEPT !.last = [call EXCEPT !.raised = "OSError"]]
        ELSE \E csv \in BOOLEAN, csv_exists \in BOOLEAN, ok \in BOOLEAN,
                dropped \in BOOLEAN :
                /\ csv_exists => csv /\ ~overwrite
                /\ dropped => camera.video_writer \in camera.open_writers
                /\ IF csv_exists
                      THEN camera' = [camera EXCEPT
                                        !.last = [call EXCEPT !.raised = "OSError"]]
                      ELSE /\ camera.made < MaxWriters
                           /\ camera' = [camera EXCEPT
                                 !.csv_writer = @ \/ csv,
                                 !.csv_open = @ \/ csv,
                                 !.made = @ + 1,
                                 !.video_writer = camera.made + 1,
                                 !.open_writers =
                                     (IF dropped THEN @ \ {camera.video_writer} ELSE @)
                                         \cup (IF ok THEN {camera.made + 1} ELSE {}),
                                 !._video_writer_isOpen = IF ok THEN TRUE ELSE @,
                                 !.last = [call EXCEPT
                                             !.raised = IF ok THEN "" ELSE "Error"]]

\* openVideoWriter as a session calls it: without format and with an '.avi'
\* filename, without format and without extension, or as MJPG without extension.
Cam_openVideoWriter ==
    /\ ~camera.closed /\ camera.cam_connected
    /\ \E a \in {<<NoFormat, ".avi">>, <<NoFormat, "">>, <<"MJPG", "">>},
          overwrite \in BOOLEAN, file_exists \in BOOLEAN, alt_exists \in BOOLEAN :
          OpenVideoWriter(a[1], a[2], overwrite, file_exists, alt_exists)
    /\ SessionUnchanged /\ UNCHANGED gui

\* The first openVideoWriter call on a new Camera, with every file_format of
\* Formats and every extension of Exts.
Cam_openVideoWriterFirst ==
    /\ camera = NewCamera
    /\ cam_nums = [p \in 1 .. nCams |-> p - 1]
    /\ gui = NewGui
    /\ \E file_format \in Formats, ext \in Exts,
          overwrite \in BOOLEAN, file_exists \in BOOLEAN, alt_exists \in BOOLEAN :
          OpenVideoWriter(file_format, ext, overwrite, file_exists, alt_exists)
    /\ SessionUnchanged /\ UNCHANGED gui

\* Camera.closeVideoWriter (with self.video_writer None it raises AttributeError)
Cam_closeVideoWriter ==
    /\ ~camera.closed
    /\ camera.video_writer # 0
    /\ camera' = CloseVideoWriter(camera)
    /\ SessionUnchanged /\ UNCHANGED gui

\* Camera.startCapture
Cam_startCapture ==
    /\ ~camera.closed /\ camera.cam_connected
    /\ ~camera.cam_capturing
    /\ camera' = [camera EXCEPT !.cam_capturing = TRUE, !._capture_isOn = TRUE]
    /\ SessionUnchanged /\ UNCHANGED gui

\* Camera.stopCapture
Cam_stopCapture ==
    /\ ~camera.closed
    /\ camera.cam_capturing
    /\ camera' = StopCapture(camera)
    /\ SessionUnchanged /\ UNCHANGED gui

\* getImage's except clause: if onError == 'error': raise e
Reraise(onError) == onError = "error"

\* Camera.getImage. bufOK: self.cam.retrieveBuffer() gives an image (it can
\* only while the camera is capturing); appendOK: self.video_writer.append(img)
\* succeeds (it can only on a writer that is open). An onError outside
\* 'ignore', 'warn', 'error' raises ValueError before anything is done. A
\* failure leaves success False and img as it was when the failure happened.
Cam_getImage ==
    /\ ~camera.closed
    /\ \E onError \in OnErrors, bufOK \in BOOLEAN, appendOK \in BOOLEAN :
          LET call == [NoCall EXCEPT !.op = "getImage", !.onError = onError]
              img == camera.images + 1
          IN  /\ bufOK => camera.cam_capturing /\ camera.images < MaxFrames
              /\ appendOK => camera.video_writer \in camera.open_writers
              /\ IF onError \notin {"ignore", "warn", "error"}
                    THEN camera' = [camera EXCEPT
                                      !.last = [call EXCEPT !.raised = "ValueError"]]
                 ELSE IF ~bufOK
                    THEN camera' = [camera EXCEPT !.last =
                            [call EXCEPT !.raised = IF Reraise(onError) THEN "Error" ELSE ""]]
                 ELSE IF camera.video_writer # 0 /\ ~appendOK
                    THEN camera' = [camera EXCEPT
                            !.images = img,
                            !.last = IF Reraise(onError)
                                        THEN [call EXCEPT !.raised = "Error"]
                                        ELSE [call EXCEPT !.img = img]]
                 ELSE camera' = [camera EXCEPT
                            !.images = img,
                            !.written = IF camera.video_writer # 0 THEN @ + 1 ELSE @,
                            !.last = [call EXCEPT !.success = TRUE, !.img = img]]
    /\ SessionUnchanged /\ UNCHANGED gui

\* Faulty variant of Cam_close: the camera is disconnected without stopCapture.
Cam_close_NoStop ==
    /\ ~camera.closed
    /\ camera' = [camera EXCEPT !.cam_connected = FALSE, !.closed = TRUE]
    /\ SessionUnchanged /\ UNCHANGED gui

\* Camera.close: stopCapture if _capture_isOn; closeVideoWriter (and csv_fd.close())
\* if video_writer and _video_writer_isOpen, its exception printed and dropped
\* (raised: close() of a writer that is not open raises); self.cam.disconnect()
Cam_close ==
    /\ ~camera.closed
    /\ \E raised \in BOOLEAN :
          LET c1 == IF camera._capture_isOn THEN StopCapture(camera) ELSE camera
              c2 == IF c1.video_writer # 0 /\ c1._video_writer_isOpen
                       THEN IF c1.video_writer \notin c1.open_writers /\ raised
                               THEN c1
                               ELSE [CloseVideoWriter(c1) EXCEPT
                                        !.csv_open = IF c1.csv_writer THEN FALSE ELSE @]
                       ELSE c1
          IN  camera' = [c2 EXCEPT !.cam_connected = FALSE, !.closed = TRUE]
    /\ SessionUnchanged /\ UNCHANGED gui

CamNext ==
    \/ Cam_openVideoWriter \/ Cam_closeVideoWriter \/ Cam_startCapture
    \/ Cam_stopCapture \/ Cam_getImage \/ Cam_close

CamSpec == CamInit /\ [][CamNext]_vars

OpenSpec == CamInit /\ [][Cam_openVideoWriterFirst]_vars

-----------------------------------------------------------------------------
LastOpen == camera.last.op = "openVideoWriter"

LastGet == camera.last.op = "getImage"

\* C21 as stated: getImage returns the image exactly when success is True
\* and None whenever success is False; with onError 'ignore' or 'warn' it does
\* not raise, and with onError 'error' a failure is raised.
C21_ImageIffSuccess ==
    LastGet =>
        /\ camera.last.raised = "" => (camera.last.img # 0 <=> camera.last.success)
        /\ camera.last.onError \in {"ignore", "warn"} => camera.last.raised = ""
        /\ camera.last.onError = "error" =>
               (camera.last.raised = "Error" \/ camera.last.success)

\* C22: openVideoWriter with overwrite False raises OSError when the output
\* file or its '-0000' variant exists; the call that raises it changes nothing
\* of the Camera; and a Camera on which no call got past that check has no
\* video writer, no open CSV file, and has written no frame.
C22_ExistingFileLeavesNoWriter ==
    /\ [](LastOpen /\ camera.last.raised # "ValueError" /\ ~camera.last.overwrite
              /\ (camera.last.file_exists \/ camera.last.alt_exists)
            => camera.last.raised = "OSError")
    /\ [](camera.made = 0 =>
             /\ camera.video_writer = 0 /\ ~camera._video_writer_isOpen
             /\ ~camera.csv_writer /\ ~camera.csv_open
             /\ camera.written = 0)
    /\ [][/\ camera'.last # camera.last
            /\ camera'.last.op = "openVideoWriter"
            /\ camera'.last.raised = "OSError"
            => camera' = [camera EXCEPT !.last = camera'.last]]_vars

C22_Witness ==
    /\ LastOpen /\ camera.last.raised = "OSError"
    /\ ~camera.last.file_exists /\ camera.last.alt_exists
    /\ camera.made = 0 /\ camera.video_writer = 0
    /\ camera.images = 1 /\ camera.written = 0

\* C23 as stated: with file_format None the format is AVI for '.avi' and
\* H264 for '.mp4' in any letter case, and ValueError is raised for any other
\* or a missing extension; with a format and no extension '.avi' is appended
\* for AVI and MJPG and '.mp4' for H264; a format outside {AVI, MJPG, H264}
\* raises ValueError.
C23_FormatResolution ==
    LastOpen =>
        LET f == camera.last.file_format
            e == camera.last.ext
            valueError == camera.last.raised = "ValueError"
        IN  /\ f = NoFormat /\ e \in {".avi", ".AVI"} =>
                   ~valueError /\ camera.last.format = "AVI"
            /\ f = NoFormat /\ e \in {".mp4", ".Mp4"} =>
                   ~valueError /\ camera.last.format = "H264"
            /\ f = NoFormat /\ e \notin {".avi", ".AVI", ".mp4", ".Mp4"} => valueError
            /\ f \in {"AVI", "MJPG"} /\ e = "" =>
                   ~valueError /\ camera.last.filename_ext = ".avi"
            /\ f = "H264" /\ e = "" =>
                   ~valueError /\ camera.last.filename_ext = ".mp4"
            /\ f \notin {NoFormat, "AVI", "MJPG", "H264"} => valueError

\* C23 amended: as stated, but the given format is compared in upper case:
\* 'avi', 'mjpg' and 'h264' in any letter case are accepted as AVI, MJPG and
\* H264, and ValueError is raised for every other format.
C23_FormatResolutionAnyCase ==
    LastOpen =>
        LET f == camera.last.file_format
            e == camera.last.ext
            valueError == camera.last.raised = "ValueError"
        IN  /\ f = NoFormat /\ e \in {".avi", ".AVI"} =>
                   ~valueError /\ camera.last.format = "AVI"
            /\ f = NoFormat /\ e \in {".mp4", ".Mp4"} =>
                   ~valueError /\ camera.last.format = "H264"
            /\ f = NoFormat /\ e \notin {".avi", ".AVI", ".mp4", ".Mp4"} => valueError
            /\ f \in {"AVI", "avi", "MJPG"} /\ e = "" =>
                   ~valueError /\ camera.last.filename_ext = ".avi"
            /\ f \in {"H264", "h264"} /\ e = "" =>
                   ~valueError /\ camera.last.filename_ext = ".mp4"
            /\ f \in {"AVI", "avi"} => ~valueError /\ camera.last.format = "AVI"
            /\ f \in {"H264", "h264"} => ~valueError /\ camera.last.format = "H264"
            /\ f = "MJPG" => ~valueError /\ camera.last.format = "MJPG"
            /\ f = "XVID" => valueError
            /\ ~valueError /\ e # "" => camera.last.filename_ext = e

C23_Witness ==
    /\ LastOpen
    /\ camera.last.file_format = "h264" /\ camera.last.ext = ""
    /\ camera.last.raised = "" /\ camera.last.filename_ext = ".mp4"
    /\ camera.last.format = "H264" /\ camera.video_writer = 1
    /\ camera._video_writer_isOpen

\* C31 as stated: a getImage call that acquired a frame appends it to the
\* video writer exactly when the Camera's writer is open; with no open writer
\* (none opened, closeVideoWriter called, or openVideoWriter raised) it leaves
\* the writer alone and returns the acquired image with success True.
C31_AppendsIffWriterOpen ==
    [][camera'.images = camera.images + 1 =>
          LET open == camera.video_writer \in camera.open_writers
          IN  /\ camera'.written = camera.written + 1 => open
              /\ open => camera'.written = camera.written + 1
                             \/ ~camera'.last.success
              /\ ~open => /\ camera'.written = camera.written
                          /\ camera'.last.raised = ""
                          /\ camera'.last.success
                          /\ camera'.last.img = camera'.images]_vars

-----------------------------------------------------------------------------
(* run_multi_camera_series.main, and sessions started with any list of camera indices *)

\* The lists of camera indices a session of n cameras is started with: the
\* first n indices in reverse order, and every second index from 5 on.
CamLists(n) == {[p \in 1 .. n |-> n - p], [p \in 1 .. n |-> 3 + 2 * p]}

TileInit ==
    /\ runner \in Runners \cup {"series"}
    /\ nCams \in 1 .. MaxCams
    /\ spc = "spawn"
    /\ si = 0
    /\ KEEPGOING = TRUE
    /\ wpc = [i \in 0 .. (nCams - 1) |-> "unborn"]
    /\ cam = [i \in 0 .. (nCams - 1) |->
                 IF runner = "multi_cameras" THEN "open" ELSE "none"]
    /\ start_event = FALSE
    /\ stop_event = FALSE
    /\ ready = [i \in 0 .. (nCams - 1) |-> FALSE]
    /\ barrier_broken = FALSE
    /\ all_ready = [i \in 0 .. (nCams - 1) |-> FALSE]
    /\ error_queue = [i \in 0 .. (nCams - 1) |-> "none"]
    /\ frame_queue = [i \in 0 .. (nCams - 1) |-> <<>>]
    /\ acq = [i \in 0 .. (nCams - 1) |-> 0]
    /\ viewport = [t \in Tiles(nCams) |-> Blank]
    /\ failed_cams = {}
    /\ errored = {}
    /\ outcome = "none"
    /\ startSnap = <<>>
    /\ deadAtTick = {}
    /\ camera = NewCamera
    /\ cam_nums \in CamLists(nCams)
    /\ gui = NewGui

\* Body of `for cam_num in cam_nums`: cam = Camera(cam_num, **cam_kwargs),
\* openVideoWriter, cams.append(cam); after the last one the viewport is set
\* up and the user presses Enter.
SR_Open ==
    /\ runner = "series" /\ spc = "spawn"
    /\ cam' = [cam EXCEPT ![si] = "open"]
    /\ IF si + 1 < nCams
          THEN si' = si + 1 /\ spc' = spc
          ELSE si' = 0 /\ spc' = "start"
    /\ UNCHANGED <<gui, cam_nums, camera, runner, nCams, KEEPGOING, wpc, start_event, stop_event,
                   ready, barrier_broken, all_ready, error_queue, frame_queue, acq,
                   viewport, failed_cams, errored, outcome, startSnap, deadAtTick>>

\* Camera(cam_num) or openVideoWriter raises: main ends with the cameras
\* opened so far left open.
SR_OpenRaise ==
    /\ runner = "series" /\ spc = "spawn"
    /\ outcome' = "main_raise"
    /\ spc' = "done"
    /\ UNCHANGED <<gui, cam_nums, camera, runner, nCams, si, KEEPGOING, wpc, cam, start_event, stop_event,
                   ready, barrier_broken, all_ready, error_queue, frame_queue, acq,
                   viewport, failed_cams, errored, startSnap, deadAtTick>>

\* for cam in cams: cam.startCapture()
SR_StartCapture ==
    /\ runner = "series" /\ spc = "start"
    /\ cam' = [i \in DOMAIN cam |-> "capturing"]
    /\ spc' = "loop"
    /\ UNCHANGED <<gui, cam_nums, camera, runner, nCams, si, KEEPGOING, wpc, start_event, stop_event,
                   ready, barrier_broken, all_ready, error_queue, frame_queue, acq,
                   viewport, failed_cams, errored, outcome, startSnap, deadAtTick>>

\* Body of `for cam_num, cam in enumerate(cams)`: i, j = unravel_index(cam_num);
\* ret, img = cam.getImage(); if ret: the tile is written with img2array(img).
SR_TickCam ==
    /\ runner = "series" /\ spc = "loop"
    /\ \E ret \in BOOLEAN :
          IF ret
             THEN /\ MoreFrames
                  /\ acq' = [acq EXCEPT ![si] = @ + 1]
                  /\ viewport' = WriteTile(viewport, si, nCams,
                                           Image(CamNum(si), acq[si] + 1))
             ELSE UNCHANGED <<acq, viewport>>
    /\ IF si + 1 < nCams
          THEN si' = si + 1 /\ spc' = spc
          ELSE si' = 0 /\ spc' = "display"
    /\ UNCHANGED <<gui, cam_nums, camera, runner, nCams, KEEPGOING, wpc, cam, start_event, stop_event,
                   ready, barrier_broken, all_ready, error_queue, frame_queue,
                   failed_cams, errored, outcome, startSnap, deadAtTick>>

\* img2array, cv2.imshow or cv2.waitKey raises: main ends with the cameras capturing.
SR_LoopRaise ==
    /\ runner = "series" /\ spc \in {"loop", "display"}
    /\ outcome' = "main_raise"
    /\ spc' = "done"
    /\ UNCHANGED <<gui, cam_nums, camera, runner, nCams, si, KEEPGOING, wpc, cam, start_event, stop_event,
                   ready, barrier_broken, all_ready, error_queue, frame_queue, acq,
                   viewport, failed_cams, errored, startSnap, deadAtTick>>

\* cv2.imshow(winName, viewport); k = cv2.waitKey(1); if k == 27: break
SR_Display ==
    /\ runner = "series" /\ spc = "display"
    /\ \E esc \in BOOLEAN : spc' = IF esc THEN "close" ELSE "loop"
    /\ UNCHANGED <<gui, cam_nums, camera, runner, nCams, si, KEEPGOING, wpc, cam, start_event, stop_event,
                   ready, barrier_broken, all_ready, error_queue, frame_queue, acq,
                   viewport, failed_cams, errored, outcome, startSnap, deadAtTick>>

\* for cam in cams: cam.stopCapture(); cam.close()
SR_Close ==
    /\ runner = "series" /\ spc = "close"
    /\ cam' = [i \in DOMAIN cam |-> "closed"]
    /\ outcome' = "quit"
    /\ spc' = "done"
    /\ UNCHANGED <<gui, cam_nums, camera, runner, nCams, si, KEEPGOING, wpc, start_event, stop_event,
                   ready, barrier_broken, all_ready, error_queue, frame_queue, acq,
                   viewport, failed_cams, errored, startSnap, deadAtTick>>

SR_Main ==
    \/ SR_Open \/ SR_OpenRaise \/ SR_StartCapture \/ SR_TickCam
    \/ SR_LoopRaise \/ SR_Display \/ SR_Close

TileNext == Next \/ SR_Main

TileSpec == TileInit /\ [][TileNext]_vars

\* C26 as stated: in run_multi_cameras every item on a frame queue is an
\* image acquired from the camera of that queue's position, and so is every
\* item placed in a viewport.
C26_QueuedItemsAreImages ==
    runner = "multi_cameras" =>
        \A i \in Cams :
            /\ \A k \in DOMAIN frame_queue[i] :
                   /\ IsImage(frame_queue[i][k])
                   /\ frame_queue[i][k][2] = CamNum(i)
            /\ LET tile == viewport[UnravelIndex(i, nCams)]
               IN  tile # Blank => IsImage(tile) /\ tile[2] = CamNum(i)

\* C27: every frame in tile p of the viewport, and every frame on the queue
\* of position p, was acquired from the camera at position p of the list of
\* camera indices, whatever the indices are; and the Supervisor's write of a
\* frame changes no tile but the one of the position it is handling.
C27_TilingByPosition ==
    /\ [](\A p \in Cams :
             /\ LET tile == viewport[UnravelIndex(p, nCams)]
                IN  IsImage(tile) => tile[2] = CamNum(p)
             /\ \A k \in DOMAIN frame_queue[p] :
                    IsImage(frame_queue[p][k]) => frame_queue[p][k][2] = CamNum(p))
    /\ [][\A t \in DOMAIN viewport :
              viewport'[t] # viewport[t] => t = UnravelIndex(si, nCams)]_vars

C27_Witness ==
    /\ runner = "multi_main"
    /\ cam_nums = <<1, 0>>
    /\ viewport[UnravelIndex(0, nCams)] = Image(1, 1)
    /\ viewport[UnravelIndex(1, nCams)] = Image(0, 1)

\* C28 as stated: when multi_main reports the cameras that failed to
\* initialise, no camera in the report has its ready event set.
C28_ReportListsOnlyUnready ==
    [][runner = "multi_main" /\ failed_cams' # failed_cams =>
          \A i \in failed_cams' : ~ready[i]]_vars

\* C29 as stated: when run_multi_cameras.main aborts, Start is set by the
\* abort only after Stop, and a capture thread that the abort releases from
\* its wait for Start finds Stop set.
C29_AbortSetsStopBeforeStart ==
    [][runner = "multi_cameras" /\ outcome = "main_error" =>
          /\ (~start_event /\ start_event') => stop_event
          /\ \A i \in Cams :
                (wpc[i] = "wait_start" /\ wpc'[i] # wpc[i]) => stop_event]_vars

\* C30 as stated: when the Supervisor of multi_main or of the threading main
\* has returned, Stop is set, no Worker waits for a Start that was never set
\* or at a barrier that is not broken, and no Worker that has ended by itself
\* has left its camera open or capturing.
C30_NoOrphanedWorker ==
    (FrameRunner /\ SupervisorReturned) =>
        /\ stop_event
        /\ \A i \in Cams :
              /\ wpc[i] = "wait_start" => start_event
              /\ wpc[i] = "barrier" => barrier_broken
              /\ wpc[i] = "exited" => cam[i] \notin {"open", "capturing"}

-----------------------------------------------------------------------------
(* gui.MainWindow: the slots of the buttons and run_capture *)

\* Camera objects created by connect_cameras in one run of the application
MaxHandles == 3

\* Clicks on Stop, Exit and Connect that one call of
\* QApplication.processEvents() handles
MaxEvents == 2

\* The camera numbers checked in the camera table (settings['cam_nums'])
CamSelections == {<<>>, <<0>>, <<0, 1>>}

GuiUnchanged == SessionUnchanged /\ UNCHANGED camera

\* MainWindow.close_preview
ClosePreview(g) == [g EXCEPT !.preview_window = FALSE]

\* A slot returns without an exception
Returned(g, slot) == [g EXCEPT !.last = [slot |-> slot, raised |-> FALSE]]

\* MainWindow.on_stop
OnStop(g) ==
    [ClosePreview([g EXCEPT !.KEEPGOING = FALSE]) EXCEPT
        !.stopBtn = FALSE, !.status = "Disconnected", !.connectBtn = TRUE]

\* Faulty variant of ErrorHandler: the window's stop method is not triggered.
ErrorHandler_NoStop(g, slot, failed) ==
    [ClosePreview(g) EXCEPT
        !.dlg = [shown |-> TRUE, failed |-> failed],
        !.last = [slot |-> slot, raised |-> TRUE]]

\* errorHandler's except clause: self.on_stop(); self.close_preview();
\* error_dlg(self, errValue, errType).exec_(). failed: the camera numbers in
\* the message.
ErrorHandler(g, slot, failed) ==
    [ClosePreview(OnStop(g)) EXCEPT
        !.dlg = [shown |-> TRUE, failed |-> failed],
        !.last = [slot |-> slot, raised |-> TRUE]]

\* MainWindow.connect_cameras, the first nOK cameras of sel connecting:
\* self.CAM_HANDLES = [] and one Camera appended for each.
ConnectCameras(g, sel, nOK) ==
    [g EXCEPT
        !.cams = @ \o [k \in 1 .. nOK |->
                         [cam_num |-> sel[k], st |-> "connected", attempted |-> FALSE]],
        !.CAM_HANDLES = [k \in 1 .. nOK |-> Len(g.cams) + k]]

\* MainWindow.on_connect under errorHandler. sel: the cameras selected (none:
\* connect_cameras raises before it touches CAM_HANDLES); preview: the
\* preview setting; nOK: the cameras that connect and open their writer
\* before one raises (all of them: no exception).
OnConnect(g, sel, preview, nOK) ==
    LET g1 == [g EXCEPT !.connectBtn = FALSE]
    IN  IF sel = <<>>
           THEN ErrorHandler(g1, "on_connect", {})
        ELSE IF nOK < Len(sel)
           THEN ErrorHandler(ConnectCameras(g1, sel, nOK), "on_connect", {})
        ELSE Returned([ConnectCameras(g1, sel, nOK) EXCEPT
                          !.preview_window = @ \/ preview,
                          !.status = "Connected",
                          !.startBtn = TRUE,
                          !.stopBtn = TRUE], "on_connect")

\* A click on Stop, Exit or Connect, with what on_connect will meet
Clicks ==
    {[btn |-> b, sel |-> <<>>, preview |-> FALSE, nOK |-> 0] : b \in {"stop", "exit"}}
        \cup {c \in [btn : {"connect"}, sel : CamSelections, preview : BOOLEAN,
                      nOK : 0 .. 2] : c.nOK <= Len(c.sel)}

\* The button is enabled and the main window is open
Clickable(g, c) ==
    /\ g.window
    /\ Len(g.cams) + c.nOK <= MaxHandles
    /\ CASE c.btn = "stop" -> g.stopBtn
         [] c.btn = "exit" -> TRUE
         [] c.btn = "connect" -> g.connectBtn

\* The slot of the button: on_stop, on_exit (on_stop and self.close()), on_connect
Click(g, c) ==
    CASE c.btn = "stop" -> Returned(OnStop(g), "on_stop")
      [] c.btn = "exit" -> Returned([OnStop(g) EXCEPT !.window = FALSE], "on_exit")
      [] c.btn = "connect" -> OnConnect(g, c.sel, c.preview, c.nOK)

\* QApplication.processEvents() inside run_capture: the slots of up to n
\* pending clicks on Stop, Exit and Connect run one after the other. A click
\* on Start that it handles is Gui_on_start.
RECURSIVE ProcessEvents(_, _)
ProcessEvents(g, n) ==
    IF n = 0 THEN {g}
    ELSE {g} \cup UNION {ProcessEvents(Click(g, c), n - 1) :
                             c \in {d \in Clicks : Clickable(g, d)}}

\* The run_capture calls that have not returned
Depth(g) == IF g.loc = "idle" THEN 0 ELSE Len(g.stack) + 1

\* run_capture, and the on_start that called it, returns or raises: to Qt's
\* event loop, or into the processEvents call of the run_capture that waits.
Leave(g) ==
    IF g.stack = <<>>
       THEN [g EXCEPT !.loc = "idle"]
       ELSE [g EXCEPT !.run = g.stack[Len(g.stack)],
                      !.stack = SubSeq(g.stack, 1, Len(g.stack) - 1)]

\* A click on Connect handled by Qt's event loop
Gui_on_connect ==
    /\ gui.loc = "idle"
    /\ \E c \in Clicks :
          /\ c.btn = "connect" /\ Clickable(gui, c)
          /\ gui' = Click(gui, c)
    /\ GuiUnchanged

\* A click on Stop handled by Qt's event loop
Gui_on_stop ==
    /\ gui.loc = "idle"
    /\ \E c \in Clicks :
          /\ c.btn = "stop" /\ Clickable(gui, c)
          /\ gui' = Click(gui, c)
    /\ GuiUnchanged

\* A click on Exit handled by Qt's event loop
Gui_on_exit ==
    /\ gui.loc = "idle"
    /\ \E c \in Clicks :
          /\ c.btn = "exit" /\ Clickable(gui, c)
          /\ gui' = Click(gui, c)
    /\ GuiUnchanged

\* MainWindow.on_start under errorHandler, up to run_capture's while loop:
\* the first k cameras start capturing before startCapture raises (all of
\* them: KEEPGOING = True and the loop is entered). The click is handled by
\* Qt's event loop or, with the Start button enabled while run_capture is
\* running, by run_capture's processEvents: that run_capture then waits.
Gui_on_start ==
    /\ gui.window /\ gui.startBtn
    /\ \E k \in 0 .. Len(gui.CAM_HANDLES) :
          LET g1 == [gui EXCEPT
                       !.startBtn = FALSE, !.stopBtn = TRUE, !.status = "Running",
                       !.last = [slot |-> "on_start", raised |-> FALSE],
                       !.run = IF gui.loc = "idle" \/ k = Len(gui.CAM_HANDLES)
                                  THEN gui.CAM_HANDLES ELSE @,
                       !.stack = IF gui.loc = "loop" /\ k = Len(gui.CAM_HANDLES)
                                    THEN Append(@, gui.run) ELSE @,
                       !.cams = [h \in DOMAIN gui.cams |->
                                   IF \E j \in 1 .. k : gui.CAM_HANDLES[j] = h
                                      THEN [gui.cams[h] EXCEPT !.st = "capturing"]
                                      ELSE gui.cams[h]]]
          IN  /\ \A j \in 1 .. k : gui.cams[gui.CAM_HANDLES[j]].st = "connected"
              /\ gui' = IF k < Len(gui.CAM_HANDLES)
                           THEN ErrorHandler(g1, "on_start", {})
                           ELSE [g1 EXCEPT !.KEEPGOING = TRUE, !.loc = "loop"]
    /\ GuiUnchanged

\* One pass of run_capture's loop: getImage on every camera (with the default
\* onError it does not raise), the display, and processEvents.
Gui_Iterate ==
    /\ gui.loc = "loop" /\ gui.KEEPGOING
    /\ gui' \in ProcessEvents(gui, MaxEvents)
    /\ GuiUnchanged

\* One pass of run_capture's loop that raises: ret is unbound with an empty
\* CAM_HANDLES, or img2array / setImage raises in the display branch. The
\* exception leaves run_capture, and on_start, before any camera is closed.
Gui_IterateRaise ==
    /\ gui.loc = "loop" /\ gui.KEEPGOING
    /\ gui.CAM_HANDLES = <<>> \/ gui.preview_window
    /\ gui' = Leave(ErrorHandler(gui, "on_start", {}))
    /\ GuiUnchanged

\* run_capture after its loop: close() on every camera of CAM_HANDLES, those
\* of F raising; with F not empty the exception naming their cam_num is raised
\* out of on_start and handled by errorHandler.
Gui_LoopExit ==
    /\ gui.loc = "loop" /\ ~gui.KEEPGOING
    /\ \E F \in SUBSET {gui.CAM_HANDLES[j] : j \in DOMAIN gui.CAM_HANDLES} :
          LET g1 == [Leave(gui) EXCEPT
                       !.cams = [h \in DOMAIN gui.cams |->
                                   IF \E j \in DOMAIN gui.CAM_HANDLES :
                                         gui.CAM_HANDLES[j] = h
                                      THEN [gui.cams[h] EXCEPT
                                              !.attempted = TRUE,
                                              !.st = IF h \in F THEN @ ELSE "closed"]
                                      ELSE gui.cams[h]]]
          IN  gui' = IF F # {}
                        THEN ErrorHandler(g1, "on_start",
                                          {gui.cams[h].cam_num : h \in F})
                        ELSE Returned(g1, "on_start")
    /\ GuiUnchanged

GuiNext ==
    \/ Gui_on_connect \/ Gui_on_stop \/ Gui_on_exit \/ Gui_on_start
    \/ Gui_Iterate \/ Gui_IterateRaise \/ Gui_LoopExit

GuiSpec == CamInit /\ [][GuiNext]_vars

\* C24: when on_connect or on_start has raised, its errorHandler has run
\* on_stop and closed the preview window and has shown the error: KEEPGOING is
\* False, the status is 'Disconnected', the Stop button is disabled, the
\* Connect button is enabled and no preview window is left.
C24_ErrorHandlerStops ==
    gui.last.raised /\ gui.last.slot \in {"on_connect", "on_start"} =>
        /\ ~gui.KEEPGOING
        /\ gui.status = "Disconnected"
        /\ ~gui.stopBtn
        /\ gui.connectBtn
        /\ ~gui.preview_window
        /\ gui.dlg.shown

C24_Witness ==
    /\ gui.last = [slot |-> "on_start", raised |-> TRUE]
    /\ gui.loc = "idle"
    /\ gui.dlg = [shown |-> TRUE, failed |-> {1}]
    /\ gui.connectBtn /\ ~gui.stopBtn /\ ~gui.KEEPGOING

\* C25 as stated: once KEEPGOING is False inside run_capture's loop the next
\* step leaves the loop, and close() has then been called on every camera that
\* run_capture was capturing from; each of them is closed or its number is in
\* the error message, and the message names no camera that closed.
C25_StopClosesEveryCamera ==
    [][gui.loc = "loop" /\ ~gui.KEEPGOING =>
          /\ Depth(gui') = Depth(gui) - 1
          /\ \A j \in DOMAIN gui.run :
                LET h == gui.run[j]
                IN  /\ gui'.cams[h].attempted
                    /\ \/ gui'.cams[h].st = "closed"
                       \/ gui'.dlg.shown /\ gui.cams[h].cam_num \in gui'.dlg.failed]_vars

\* Camera.close() has disconnected every Camera that connect_cameras created
AllClosed(g) == \A h \in DOMAIN g.cams : g.cams[h].st = "closed"

\* C32 as stated: whenever the status reads 'Disconnected' and no capture loop
\* is running, every Camera that connect_cameras created has been closed.
C32_DisconnectedMeansClosed ==
    gui.status = "Disconnected" /\ gui.loc = "idle" => AllClosed(gui)

\* C33 as stated: at most one run_capture loop is active at a time; the
\* Connect button is enabled only when no camera is connected and no capture
\* loop is running; and no step replaces CAM_HANDLES while a loop is running.
C33_OneLoopAndConnectGuard ==
    /\ [](Depth(gui) <= 1)
    /\ [](gui.connectBtn => gui.loc = "idle" /\ AllClosed(gui))
    /\ [][gui.loc = "loop" => gui'.CAM_HANDLES = gui.CAM_HANDLES]_vars

=============================================================================
